---- MODULE Spec2Model ----
(***************************************************************************)
(* Multi-provider LLM gateway: the provider factory                        *)
(* (services/provider_factory.py), the model registry                      *)
(* (services/config_loader.py) and the request dispatcher                  *)
(* (function_app.py, flask_app.py).                                        *)
(*                                                                         *)
(* Requests are served by worker threads that share the module-level       *)
(* caches.  Every thread runs one operation at a time; a step of a thread  *)
(* is one access to shared state (a module global, the configuration file, *)
(* the process environment) together with the local computation that       *)
(* follows it.                                                             *)
(***************************************************************************)
EXTENDS Integers, Sequences, FiniteSets, TLC

(***************************************************************************)
(* Bounds of the model.                                                    *)
(***************************************************************************)
NumThreads == 2
MaxInstances == 3
MaxEdits == 1

Threads == 1..NumThreads

(***************************************************************************)
(* Strings are sequences of one-character strings, so that str.strip() and *)
(* str.lower() are computed and not assumed.                               *)
(***************************************************************************)
UpperLetters ==
    <<"A","B","C","D","E","F","G","H","I","J","K","L","M",
      "N","O","P","Q","R","S","T","U","V","W","X","Y","Z">>
LowerLetters ==
    <<"a","b","c","d","e","f","g","h","i","j","k","l","m",
      "n","o","p","q","r","s","t","u","v","w","x","y","z">>
Whitespace == {" ", "\t", "\n", "\r"}

LowerChar(c) ==
    IF \E i \in 1..Len(UpperLetters) : UpperLetters[i] = c
    THEN LowerLetters[CHOOSE i \in 1..Len(UpperLetters) : UpperLetters[i] = c]
    ELSE c

StrLower(s) == [i \in 1..Len(s) |-> LowerChar(s[i])]

RECURSIVE LStrip(_), RStrip(_)
LStrip(s) == IF s # <<>> /\ Head(s) \in Whitespace THEN LStrip(Tail(s)) ELSE s
RStrip(s) ==
    IF s # <<>> /\ s[Len(s)] \in Whitespace
    THEN RStrip(SubSeq(s, 1, Len(s) - 1))
    ELSE s
StrStrip(s) == RStrip(LStrip(s))

\* provider_factory.py line 42: key = provider_name.strip().lower()
NormalizeKey(provider_name) == StrLower(StrStrip(provider_name))

(***************************************************************************)
(* The provider map (provider_factory.py lines 47-52), in insertion order. *)
(***************************************************************************)
K_openai == <<"o","p","e","n","a","i">>
K_azure == <<"a","z","u","r","e"," ","o","p","e","n","a","i">>
K_anthropic == <<"a","n","t","h","r","o","p","i","c">>
K_bedrock == <<"a","w","s"," ","b","e","d","r","o","c","k">>

ProviderMapKeys == <<K_openai, K_azure, K_anthropic, K_bedrock>>
ProviderMapClasses ==
    <<"OpenAIProvider", "AzureOpenAIProvider", "AnthropicProvider", "BedrockProvider">>
ProviderKeys == {ProviderMapKeys[i] : i \in 1..Len(ProviderMapKeys)}

NoClass == "None"
\* provider_map.get(key)
OpenAIForEveryKey(key) == IF key \in ProviderKeys THEN "OpenAIProvider" ELSE NoClass
FallbackProviderClass(key) ==
    IF key \in ProviderKeys
    THEN ProviderMapClasses[CHOOSE i \in 1..Len(ProviderMapKeys) : ProviderMapKeys[i] = key]
    ELSE "OpenAIProvider"
ProviderClass(key) ==
    IF key \in ProviderKeys
    THEN ProviderMapClasses[CHOOSE i \in 1..Len(ProviderMapKeys) : ProviderMapKeys[i] = key]
    ELSE NoClass

\* ', '.join(provider_map.keys())
SupportedProviders == ProviderMapKeys

(***************************************************************************)
(* Credentials each adapter's constructor requires from os.environ.        *)
(***************************************************************************)
EnvVars ==
    {"OPENAI_API_KEY", "AZURE_OPENAI_API_KEY", "AZURE_OPENAI_ENDPOINT",
     "ANTHROPIC_API_KEY", "AWS_ACCESS_KEY_ID", "AWS_SECRET_ACCESS_KEY",
     "AZURE_STORAGE_CONNECTION_STRING"}

\* The variables whose absence makes the constructor raise ValueError, in the
\* order the constructor tests them.
RequiredEnv(class) ==
    CASE class = "OpenAIProvider" -> <<"OPENAI_API_KEY">>
      [] class = "AzureOpenAIProvider" -> <<"AZURE_OPENAI_API_KEY", "AZURE_OPENAI_ENDPOINT">>
      [] class = "AnthropicProvider" -> <<"ANTHROPIC_API_KEY">>
      [] class = "BedrockProvider" -> <<>>

\* The first required variable that is not set, or "" when all are set.
NothingMissing(class, environ) == ""
MissingEnv(class, environ) ==
    LET req == RequiredEnv(class)
        miss == {i \in 1..Len(req) : req[i] \notin environ}
    IN IF miss = {} THEN ""
       ELSE req[CHOOSE i \in miss : \A j \in miss : i <= j]


(***************************************************************************)
(* Values.  None is Python's None; every optional value is a record with a *)
(* tag, so that values of different shapes can be compared.                *)
(***************************************************************************)
None == [tag |-> "None"]

\* An exception in flight: its class and what its message carries.
Raise(exc, msg) == [tag |-> "raise", exc |-> exc, msg |-> msg]
Return(value) == [tag |-> "return", value |-> value]

\* The exception classes that `except ValueError` catches.
ValueErrors == {"ValueError", "binascii.Error", "UnicodeEncodeError"}

\* A string that may be None is Str(chars), chars a sequence of characters,
\* or None.
Str(chars) == [tag |-> "str", chars |-> chars]

\* Python's truth value of an Optional[str].
Truthy(v) == v # None /\ v.chars # <<>>

M_png == <<"i","m","a","g","e","/","p","n","g">>
M_jpeg == <<"i","m","a","g","e","/","j","p","e","g">>
M_bmp == <<"i","m","a","g","e","/","b","m","p">>

(***************************************************************************)
(* Provider names that callers pass to get_provider.                       *)
(***************************************************************************)
N_OpenAI == <<"O","p","e","n","A","I">>
N_openai_spaced == <<" ","o","p","e","n","a","i"," ">>
N_OPENAI == <<"O","P","E","N","A","I">>
N_anthropic_tab == <<"a","n","t","h","r","o","p","i","c","\t">>
N_AzureOpenAI == <<"A","z","u","r","e"," ","O","p","e","n","A","I">>
N_AWSBedrock == <<"A","W","S"," ","B","e","d","r","o","c","k">>
N_unknown == <<"u","n","k","n","o","w","n","-","v","e","n","d","o","r">>

ProviderNames ==
    {N_OpenAI, N_openai_spaced, N_OPENAI, N_anthropic_tab,
     N_AzureOpenAI, N_AWSBedrock, N_unknown}

\* The names that overlapping callers pass.
RacingNames == {N_OpenAI, N_openai_spaced, N_AzureOpenAI, N_unknown}

\* The environments a process is started in.
EnvChoices ==
    {EnvVars,
     {},
     EnvVars \ {"OPENAI_API_KEY"},
     EnvVars \ {"AZURE_OPENAI_ENDPOINT", "ANTHROPIC_API_KEY"}}


(***************************************************************************)
(* The configuration file.  A descriptor is a JSON object: a function from *)
(* the keys it has to their values; temperature is in tenths.              *)
(***************************************************************************)
D_gpt ==
    [modelId |-> "gpt-4o", modelName |-> <<"g","p","t","-","4","o">>, providerName |-> N_OpenAI,
     temperature |-> 3, supportsVision |-> TRUE]
D_claude ==
    [modelId |-> "claude", modelName |-> <<"c","l","a","u","d","e","-","4">>,
     providerName |-> N_anthropic_tab, temperature |-> 5, supportsVision |-> FALSE]
D_llama ==
    [modelId |-> "llama", modelName |-> <<"m","e","t","a",".","l","l","a","m","a","3">>,
     providerName |-> N_AWSBedrock, supportsVision |-> TRUE]
D_bare == [modelId |-> "bare", modelName |-> <<"x","-","1">>, providerName |-> N_unknown]
D_gpt_again ==
    [modelId |-> "gpt-4o", modelName |-> <<"g","p","t","-","4","o","-","m","i","n","i">>,
     providerName |-> N_AzureOpenAI, temperature |-> 10, supportsVision |-> FALSE]

\* A parsed JSON document: an object with or without the "models" key, or a
\* value that is no object (an array, null).
JsonObject(models) == [tag |-> "dict", has_models |-> TRUE, models |-> models]
JsonObjectNoModels == [tag |-> "dict", has_models |-> FALSE, models |-> <<>>]
JsonArray == [tag |-> "array"]
JsonNull == None

CfgA == JsonObject(<<D_gpt, D_claude, D_llama>>)
CfgB == JsonObject(<<D_claude, D_bare>>)
CfgDup == JsonObject(<<D_gpt, D_gpt_again>>)

FileMissing == [kind |-> "missing"]
FileInvalid == [kind |-> "invalid"]
FileJson(doc) == [kind |-> "json", doc |-> doc]

Files ==
    {FileMissing, FileInvalid, FileJson(JsonNull), FileJson(JsonArray),
     FileJson(JsonObjectNoModels), FileJson(CfgA), FileJson(CfgB), FileJson(CfgDup)}

\* A list of descriptors as the value of a Python variable.
List(items) == [tag |-> "list", items |-> items]

ModelIds == {"gpt-4o", "claude", "llama", "bare", "nonexistent"}
\* The ids that direct callers of get_model_by_id look up.
LookupIds == {"gpt-4o", "claude", "nonexistent"}

\* dict.get(key, default) on a descriptor.
DictGet(d, key, default) == IF key \in DOMAIN d THEN d[key] ELSE default

\* config_loader.py lines 92-95: the first descriptor whose modelId is
\* model_id, or None.
FirstModelWhenAbsent(items, model_id) ==
    LET hits == {i \in 1..Len(items) : DictGet(items[i], "modelId", "") = model_id}
    IN IF hits = {}
       THEN (IF items = <<>> THEN None ELSE [tag |-> "dict", d |-> items[1]])
       ELSE [tag |-> "dict", d |-> items[CHOOSE i \in hits : \A j \in hits : i <= j]]
FindModelById(items, model_id) ==
    LET hits == {i \in 1..Len(items) : DictGet(items[i], "modelId", "") = model_id}
    IN IF hits = {} THEN None
       ELSE [tag |-> "dict", d |-> items[CHOOSE i \in hits : \A j \in hits : i <= j]]

(***************************************************************************)
(* State.                                                                  *)
(***************************************************************************)
VARIABLES
    provider_cache,     \* provider_factory._provider_cache: key -> instance
    heap,               \* the adapter objects constructed so far: heap[i] is
                        \* the class of instance i
    environ,            \* the names of the environment variables that are set
    models_cache,       \* config_loader._models_cache
    full_config_cache,  \* config_loader._full_config_cache
    file,               \* what models_config.json holds on disk
    edits,              \* how often the file was rewritten
    th,                 \* th[t]: the operation thread t runs and its locals
    returned,           \* history: returned[k] is the set of instances that
                        \* get_provider calls have returned for key k
    models_writes,      \* history: assignments of a list to _models_cache
                        \* since it was last None at start-up or cleared
    table,              \* the Azure table of users: RowKey -> entity
    written,            \* history: written[u] holds the password and the
                        \* isAdmin flag that the requests answered with
                        \* success wrote last for u, for the users whose
                        \* deletion was not answered with success since
    table_client        \* user_service._table_client

vars ==
    <<provider_cache, heap, environ, models_cache, full_config_cache, file,
      edits, th, returned, models_writes, table, written, table_client>>

factoryVars == <<provider_cache, heap, returned>>
registryVars == <<models_cache, full_config_cache, models_writes>>
userVars == <<table, written, table_client>>
worldVars == <<environ, file, edits, userVars>>

(***************************************************************************)
(* Requests and responses of the dispatcher (function_app.py; flask_app.py *)
(* has the same handlers for /api/models, /api/chat and /api/chat/vision). *)
(* An absent field and an empty one are both "": the handlers test         *)
(* `not field`.                                                            *)
(***************************************************************************)
\* The key is not in the JSON object (a key that is there may hold null).
Absent == [tag |-> "absent"]

I_base64 == <<"a","G","k","=">>
I_undecodable == <<"a","G","k">>
I_http_url == <<"h","t","t","p",":","/","/","x">>
I_https_url == <<"h","t","t","p","s",":","/","/","x">>
I_http_base64 == <<"h","t","t","p","A","A","A","A">>
I_ftp_url == <<"f","t","p",":","/","/","x">>

VisionRequest(prompt, image, model_id, media_type) ==
    [json |-> TRUE, prompt |-> prompt, imageContent |-> image, modelId |-> model_id,
     imageMediaType |-> media_type]
Request(prompt, image, model_id) == VisionRequest(prompt, image, model_id, Absent)
NoRequest == [Request("", <<>>, "") EXCEPT !.json = FALSE]

ChatRequests ==
    {Request("hi", <<>>, id) : id \in {"gpt-4o", "bare", "nonexistent", ""}}
        \cup {Request("", <<>>, "gpt-4o"), NoRequest}
VisionRequests ==
    {Request("hi", I_base64, id) : id \in ModelIds}
        \cup {Request("", I_base64, "gpt-4o"), Request("hi", <<>>, "gpt-4o")}

\* The requests made one at a time.
MoreChatRequests == ChatRequests \cup {Request("hi", <<>>, id) : id \in {"llama", "claude"}}
MoreVisionRequests ==
    VisionRequests
        \cup {VisionRequest("hi", I_undecodable, id, Str(M_jpeg)) : id \in {"llama", "gpt-4o"}}
        \cup {VisionRequest("hi", I_http_url, "gpt-4o", None)}

\* An HTTP response: _json_response(body, status_code).
Response(status, body) == [tag |-> "response", status |-> status, body |-> body]

\* The operation of the thread with locals r ends with result; the locals of
\* the functions it called are gone.
Finished(r, result) ==
    [r EXCEPT !.pc = "done", !.result = result, !.config = None,
              !.name = IF r.op = "get_provider" THEN r.name ELSE <<>>,
              !.key = IF r.op = "get_provider" THEN r.key ELSE <<>>]

\* function_app.py lines 72-83 and 115-130: the 400 a request is answered
\* with before the registry is consulted, or None.
RequestRejection(op, req) ==
    IF ~req.json THEN Response(400, [error |-> "Request body must be valid JSON."])
    ELSE IF req.prompt = "" THEN Response(400, [error |-> "Field 'prompt' is required."])
    ELSE IF op = "chat_vision" /\ req.imageContent = <<>>
    THEN Response(400, [error |-> "Field 'imageContent' is required."])
    ELSE IF req.modelId = "" THEN Response(400, [error |-> "Field 'modelId' is required."])
    ELSE None

\* function_app.py line 136: model_config.get("supportsVision", False)
VisionByDefault(d) == DictGet(d, "supportsVision", TRUE)
SupportsVision(d) == DictGet(d, "supportsVision", FALSE)

\* function_app.py lines 101-106 and 156-161 (flask_app.py 106-111 and
\* 184-189): the except clauses around get_provider and the adapter call.
GenerationFailed(e) == Response(500, [error |-> "Generation failed", cause |-> e])
EveryErrorIs500(e) == GenerationFailed(e)
HandlerExcept(e) ==
    IF e.exc \in ValueErrors
    THEN Response(400, [error |-> e])
    ELSE GenerationFailed(e)

\* function_app.py lines 86-90 and 133-143: what chat and chat_vision do with
\* the value model_config that get_model_by_id returned.
AfterModelLookup(r, model_config) ==
    LET r1 == [r EXCEPT !.model_config = model_config]
    IN IF model_config = None
       THEN Finished(r1, Response(404, [error |-> "Model not found."]))
       ELSE IF r.op = "chat_vision" /\ ~SupportsVision(model_config.d)
       THEN Finished(r1, Response(400,
                           [error |-> "Model does not support vision/image input."]))
       ELSE IF "providerName" \notin DOMAIN model_config.d
       THEN Finished(r1, HandlerExcept(Raise("KeyError", [text |-> "providerName"])))
       ELSE [r1 EXCEPT !.pc = "gp_check", !.name = model_config.d.providerName,
                       !.gp_calls = @ + 1]

Handlers == {"chat", "chat_vision"}

\* The endpoints of the user store.
UserOps == {"add_user", "delete_user", "update_user", "validate_user"}

\* function_app.py lines 215-224, 250-257, 304-311, 350-355: the except
\* clauses of the user endpoints.
UserExcept(r, e) ==
    IF e.exc = "ResourceExistsError" /\ r.op = "add_user"
    THEN Response(409, [error |-> "already exists", username |-> r.ureq.username])
    ELSE IF e.exc = "ResourceNotFoundError" /\ r.op \in {"delete_user", "update_user"}
    THEN Response(404, [error |-> "not found", username |-> r.ureq.username])
    ELSE Response(500, [error |-> e])

\* A thread that runs nothing.
Idle ==
    [op |-> "idle", pc |-> "idle", name |-> <<>>, key |-> <<>>, inst |-> 0,
     model_id |-> "", config |-> None, fresh |-> None, req |-> NoRequest,
     model_config |-> None, gp_calls |-> 0, vendor_calls |-> 0,
     call |-> None, vendor_request |-> None, reply |-> None,
     ureq |-> None, phase |-> "", entity |-> None,
     result |-> None]

Free(t) == th[t].pc \in {"idle", "done"}

(***************************************************************************)
(* provider_factory.get_provider                                           *)
(***************************************************************************)
\* get_provider returns instance i for key k to the thread with locals r.
ProviderReturned(r, k, i) ==
    IF r.op \in Handlers
    THEN [r EXCEPT !.pc = "generate", !.key = k, !.inst = i]
    ELSE [r EXCEPT !.pc = "done", !.key = k, !.inst = i,
                   !.result = Return([tag |-> "provider", inst |-> i])]

\* get_provider raises e in the thread with locals r.
ProviderRaised(r, k, e) ==
    IF r.op \in Handlers
    THEN Finished(r, HandlerExcept(e))
    ELSE [r EXCEPT !.pc = "done", !.key = k, !.result = e]

UnknownProvider(provider_name) ==
    Raise("ValueError",
          [text |-> "Unknown provider", name |-> provider_name,
           supported |-> SupportedProviders])

EnvNotSet(var) ==
    Raise("ValueError", [text |-> "environment variable is not set", var |-> var])

\* A caller asks for a provider.
GetProviderCall(t, provider_name) ==
    /\ Free(t)
    /\ th' = [th EXCEPT ![t] = [Idle EXCEPT !.op = "get_provider",
                                            !.pc = "gp_check",
                                            !.name = provider_name]]
    /\ UNCHANGED <<factoryVars, registryVars, worldVars>>

\* Lines 42-59: the key, the cache test and the lookup in provider_map.
GetProviderCheck(t) ==
    LET r == th[t]
        key == NormalizeKey(r.name)
    IN /\ r.pc = "gp_check"
       /\ IF key \in DOMAIN provider_cache
          THEN /\ th' = [th EXCEPT ![t] = ProviderReturned(r, key, provider_cache[key])]
               /\ returned' = [returned EXCEPT ![key] = @ \cup {provider_cache[key]}]
          ELSE /\ returned' = returned
               /\ IF ProviderClass(key) = NoClass
                  THEN th' = [th EXCEPT ![t] =
                                 ProviderRaised(r, key, UnknownProvider(r.name))]
                  ELSE th' = [th EXCEPT ![t] = [r EXCEPT !.pc = "gp_construct",
                                                         !.key = key]]
       /\ UNCHANGED <<provider_cache, heap, registryVars, worldVars>>

\* Line 62: instance = provider_class(); the constructor reads os.environ.
GetProviderConstruct(t) ==
    LET r == th[t]
        class == ProviderClass(r.key)
        missing == MissingEnv(class, environ)
    IN /\ r.pc = "gp_construct"
       /\ IF missing # ""
          THEN /\ th' = [th EXCEPT ![t] = ProviderRaised(r, r.key, EnvNotSet(missing))]
               /\ heap' = heap
          ELSE /\ Len(heap) < MaxInstances
               /\ heap' = Append(heap, class)
               /\ th' = [th EXCEPT ![t] = [r EXCEPT !.pc = "gp_store",
                                                    !.inst = Len(heap) + 1]]
       /\ UNCHANGED <<provider_cache, returned, registryVars, worldVars>>

\* The key under which line 63 stores the instance.
RawNameStoreKey(r) == r.name
StoreKey(r) == r.key

\* Lines 63-64: _provider_cache[key] = instance; return instance.
GetProviderStore(t) ==
    LET r == th[t]
    IN /\ r.pc = "gp_store"
       /\ provider_cache' =
              [k \in DOMAIN provider_cache \cup {StoreKey(r)} |->
                  IF k = StoreKey(r) THEN r.inst ELSE provider_cache[k]]
       /\ th' = [th EXCEPT ![t] = ProviderReturned(r, r.key, r.inst)]
       /\ returned' = [returned EXCEPT ![r.key] = @ \cup {r.inst}]
       /\ UNCHANGED <<heap, registryVars, worldVars>>

GetProviderStep(t) ==
    \/ GetProviderCheck(t)
    \/ GetProviderConstruct(t)
    \/ GetProviderStore(t)

(***************************************************************************)
(* config_loader: _load_full_config, _load_models and their callers.       *)
(***************************************************************************)
\* function_app.py lines 58-63 (flask_app.py lines 45-50): the response of
\* GET /api/models when get_all_models returned m.
ListModelsResponse(m) ==
    IF m = None
    THEN Response(500, [error |-> Raise("TypeError", [text |-> "no len()"])])
    ELSE Response(200, [models |-> m, count |-> Len(m.items)])

\* What the caller of _load_models does with the value m it returns.
LoadModelsReturned(r, m) ==
    CASE r.op \in {"get_all_models", "reload_config"} ->
            Finished(r, Return(m))
      [] r.op = "get_model_by_id" ->
            \* lines 91-95: for model in models
            IF m = None
            THEN Finished(r, Raise("TypeError", [text |-> "not iterable"]))
            ELSE Finished(r, Return(FindModelById(m.items, r.model_id)))
      [] r.op = "list_models" ->
            Finished(r, ListModelsResponse(m))
      [] r.op \in Handlers ->
            \* get_model_by_id is called outside the handler's try block
            IF m = None
            THEN Finished(r, Raise("TypeError", [text |-> "not iterable"]))
            ELSE AfterModelLookup(r, FindModelById(m.items, r.model_id))

\* An exception e leaves _load_models.
LoadModelsRaised(r, e) ==
    CASE r.op \in {"get_all_models", "reload_config", "get_model_by_id"} ->
            Finished(r, e)
      [] r.op = "list_models" ->
            \* function_app.py lines 61-63: except Exception
            Finished(r, Response(500, [error |-> e]))
      [] r.op \in UserOps ->
            Finished(r, UserExcept(r, e))
      [] r.op \in Handlers ->
            \* function_app.py lines 85 and 132: not inside a try block
            Finished(r, e)

RegistryCall(t, op, model_id) ==
    /\ Free(t)
    /\ th' = [th EXCEPT ![t] = [Idle EXCEPT !.op = op,
                                            !.pc = IF op = "reload_config"
                                                   THEN "rl_clear_models"
                                                   ELSE "lm_check",
                                            !.model_id = model_id]]
    /\ UNCHANGED <<factoryVars, registryVars, worldVars>>

\* Line 124: _models_cache = None
ReloadClearModels(t) ==
    /\ th[t].pc = "rl_clear_models"
    /\ models_cache' = None
    /\ models_writes' = 0
    /\ th' = [th EXCEPT ![t].pc = "rl_clear_full"]
    /\ UNCHANGED <<full_config_cache, factoryVars, worldVars>>

\* Lines 125-127: _full_config_cache = None; return _load_models()
ReloadClearFull(t) ==
    /\ th[t].pc = "rl_clear_full"
    /\ full_config_cache' = None
    /\ th' = [th EXCEPT ![t].pc = "lm_check"]
    /\ UNCHANGED <<models_cache, models_writes, factoryVars, worldVars>>

\* Lines 60-63: if _models_cache is not None: return _models_cache
ModelsCached(cache) == cache # None

\* _load_full_config returns config to its caller: _load_models (line 63),
\* or get_user_storage_config (line 109) called by
\* user_service._get_table_client (line 41) or _get_partition_key (line 66).
FullConfigReturned(r, config) ==
    IF r.op \in UserOps
    THEN [r EXCEPT !.pc = IF r.phase = "client" THEN "tc_connect" ELSE "store_op",
                   !.config = config]
    ELSE [r EXCEPT !.pc = "lm_store", !.config = config]

LoadModelsCheck(t) ==
    LET r == th[t]
    IN /\ r.pc = "lm_check"
       /\ th' = [th EXCEPT ![t] =
                    IF ModelsCached(models_cache)
                    THEN LoadModelsReturned(r, models_cache)
                    ELSE [r EXCEPT !.pc = "lfc_check"]]
       /\ UNCHANGED <<factoryVars, registryVars, worldVars>>

\* Lines 40-41: if _full_config_cache is not None: return _full_config_cache
LoadFullConfigCheck(t) ==
    LET r == th[t]
    IN /\ r.pc = "lfc_check"
       /\ th' = [th EXCEPT ![t] =
                    IF full_config_cache # None
                    THEN FullConfigReturned(r, full_config_cache)
                    ELSE [r EXCEPT !.pc = "lfc_read"]]
       /\ UNCHANGED <<factoryVars, registryVars, worldVars>>

\* Lines 45-46: open(CONFIG_FILE_PATH) and json.load(f).
EmptyOnFailure(f) ==
    IF f.kind = "json" THEN Return(f.doc) ELSE Return(JsonObjectNoModels)
ReadConfigFile(f) ==
    CASE f.kind = "missing" -> Raise("FileNotFoundError", [text |-> "No such file"])
      [] f.kind = "invalid" -> Raise("JSONDecodeError", [text |-> "Expecting value"])
      [] f.kind = "json" -> Return(f.doc)

LoadFullConfigRead(t) ==
    LET r == th[t]
        got == ReadConfigFile(file)
    IN /\ r.pc = "lfc_read"
       /\ th' = [th EXCEPT ![t] =
                    IF got.tag = "raise"
                    THEN LoadModelsRaised(r, got)
                    ELSE [r EXCEPT !.pc = "lfc_store", !.config = got.value,
                                   !.fresh = Return(got.value)]]
       /\ UNCHANGED <<factoryVars, registryVars, worldVars>>

\* Line 46: _full_config_cache = <the parsed document>
StoreObjectsOnly(t) ==
    LET r == th[t]
    IN /\ r.pc = "lfc_store"
       /\ full_config_cache' = IF r.config.tag = "dict" THEN r.config ELSE None
       /\ th' = [th EXCEPT ![t] = [r EXCEPT !.pc = "lfc_return", !.config = None]]
       /\ UNCHANGED <<models_cache, models_writes, factoryVars, worldVars>>
LoadFullConfigStore(t) ==
    LET r == th[t]
    IN /\ r.pc = "lfc_store"
       /\ full_config_cache' = r.config
       /\ th' = [th EXCEPT ![t] = [r EXCEPT !.pc = "lfc_return", !.config = None]]
       /\ UNCHANGED <<models_cache, models_writes, factoryVars, worldVars>>

\* Line 48: return _full_config_cache (the global is read again), and
\* line 63: config = <the value returned>.
LoadFullConfigReturn(t) ==
    LET r == th[t]
    IN /\ r.pc = "lfc_return"
       /\ th' = [th EXCEPT ![t] = FullConfigReturned(r, full_config_cache)]
       /\ UNCHANGED <<factoryVars, registryVars, worldVars>>

\* config.get("models", [])
RECURSIVE Reversed(_)
Reversed(q) == IF q = <<>> THEN <<>> ELSE Append(Reversed(Tail(q)), Head(q))
ReversedConfigModels(config) ==
    IF config.tag = "dict"
    THEN Return(List(IF config.has_models THEN Reversed(config.models) ELSE <<>>))
    ELSE Raise("AttributeError", [text |-> "object has no attribute 'get'"])
ConfigModels(config) ==
    IF config.tag = "dict"
    THEN Return(List(IF config.has_models THEN config.models ELSE <<>>))
    ELSE Raise("AttributeError", [text |-> "object has no attribute 'get'"])

\* Line 64: _models_cache = config.get("models", [])
LoadModelsStore(t) ==
    LET r == th[t]
        got == ConfigModels(r.config)
    IN /\ r.pc = "lm_store"
       /\ IF got.tag = "raise"
          THEN /\ th' = [th EXCEPT ![t] = LoadModelsRaised(r, got)]
               /\ UNCHANGED <<models_cache, models_writes>>
          ELSE /\ models_cache' = got.value
               /\ models_writes' = IF models_writes < 2 THEN models_writes + 1
                                   ELSE models_writes
               /\ th' = [th EXCEPT ![t] = [r EXCEPT !.pc = "lm_log"]]
       /\ UNCHANGED <<full_config_cache, factoryVars, worldVars>>

\* Line 65: logger.info(..., len(_models_cache)) reads the global.
LoadModelsLog(t) ==
    LET r == th[t]
    IN /\ r.pc = "lm_log"
       /\ th' = [th EXCEPT ![t] =
                    IF models_cache = None
                    THEN LoadModelsRaised(r, Raise("TypeError", [text |-> "no len()"]))
                    ELSE [r EXCEPT !.pc = "lm_return"]]
       /\ UNCHANGED <<factoryVars, registryVars, worldVars>>

\* Line 66: return _models_cache (the global is read again).
LoadModelsReturn(t) ==
    LET r == th[t]
    IN /\ r.pc = "lm_return"
       /\ th' = [th EXCEPT ![t] = LoadModelsReturned(r, models_cache)]
       /\ UNCHANGED <<factoryVars, registryVars, worldVars>>

RegistryStep(t) ==
    \/ LoadModelsCheck(t)
    \/ LoadFullConfigCheck(t)
    \/ LoadFullConfigRead(t)
    \/ LoadFullConfigStore(t)
    \/ LoadFullConfigReturn(t)
    \/ LoadModelsStore(t)
    \/ LoadModelsLog(t)
    \/ LoadModelsReturn(t)

ReloadStep(t) ==
    \/ ReloadClearModels(t)
    \/ ReloadClearFull(t)

\* Somebody rewrites models_config.json.
EditFile ==
    /\ edits < MaxEdits
    /\ edits' = edits + 1
    /\ file' \in Files \ {file}
    /\ UNCHANGED <<environ, userVars, th, factoryVars, registryVars>>

\* The configuration is fixed while the process runs: the variables that
\* were not set are set in os.environ, which the constructors read at line
\* 32 (openai_provider.py) when they are called.
FixEnvironment ==
    /\ environ # EnvVars
    /\ environ' = EnvVars
    /\ UNCHANGED <<file, edits, userVars, th, factoryVars, registryVars>>

(***************************************************************************)
(* The dispatcher: POST /api/chat and POST /api/chat/vision.               *)
(***************************************************************************)
\* function_app.py lines 70-85 and 113-132: the request is parsed and
\* validated, then get_model_by_id(model_id) is called.
HandlerCall(t, op, req) ==
    LET rejection == RequestRejection(op, req)
        r == [Idle EXCEPT !.op = op, !.req = req]
    IN /\ Free(t)
       /\ th' = [th EXCEPT ![t] =
                    IF rejection # None
                    THEN Finished(r, rejection)
                    ELSE [r EXCEPT !.pc = "lm_check", !.model_id = req.modelId]]
       /\ UNCHANGED <<factoryVars, registryVars, worldVars>>

StartsWith(s, prefix) ==
    Len(s) >= Len(prefix) /\ SubSeq(s, 1, Len(prefix)) = prefix

\* bedrock_provider.py lines 45-47
IsMetaModel(model_name) == StartsWith(model_name, <<"m","e","t","a",".">>)


(***************************************************************************)
(* The adapters: what generate_text and generate_with_image pass to the    *)
(* vendor's SDK and what they return for the SDK's reply.  Texts, image    *)
(* contents and media types are sequences of characters; a value that may  *)
(* be None is Str(chars) or None (see Values).                             *)
(***************************************************************************)
\* openai_provider.py line 95 (azure 110, anthropic 102, bedrock 134):
\* media_type = image_media_type or "image/png"
MediaTypeOrDefault(image_media_type) ==
    IF Truthy(image_media_type) THEN image_media_type.chars ELSE M_png

\* openai_provider.py line 98 (azure 113, anthropic 105):
\* image_content.startswith("http")
UrlWithScheme(image_content) ==
    \/ StartsWith(image_content, <<"h","t","t","p",":","/","/">>)
    \/ StartsWith(image_content, <<"h","t","t","p","s",":","/","/">>)
IsUrl(image_content) == StartsWith(image_content, <<"h","t","t","p">>)

\* openai_provider.py lines 98-101 (azure 113-116): the url of the image_url
\* part.
OpenAIImageUrl(image_content, image_media_type) ==
    IF IsUrl(image_content)
    THEN image_content
    ELSE <<"d","a","t","a",":">> \o MediaTypeOrDefault(image_media_type)
            \o <<";","b","a","s","e","6","4",",">> \o image_content

\* anthropic_provider.py lines 105-115: image_source
AnthropicImageSource(image_content, image_media_type) ==
    IF IsUrl(image_content)
    THEN [type |-> "url", url |-> image_content]
    ELSE [type |-> "base64", media_type |-> MediaTypeOrDefault(image_media_type),
          data |-> image_content]

\* bedrock_provider.py lines 137-143: format_map.get(media_type, "png")
BedrockImageFormat(media_type) ==
    CASE media_type = M_png -> "png"
      [] media_type = M_jpeg -> "jpeg"
      [] media_type = <<"i","m","a","g","e","/","g","i","f">> -> "gif"
      [] media_type = <<"i","m","a","g","e","/","w","e","b","p">> -> "webp"
      [] OTHER -> "png"

\* base64.b64decode(s) of bedrock_provider.py line 146: characters outside
\* the alphabet are dropped, a length that is no multiple of four raises
\* binascii.Error, and every four characters give up to three bytes.
B64Alphabet ==
    <<"A","B","C","D","E","F","G","H","I","J","K","L","M","N","O","P","Q","R",
      "S","T","U","V","W","X","Y","Z","a","b","c","d","e","f","g","h","i","j",
      "k","l","m","n","o","p","q","r","s","t","u","v","w","x","y","z","0","1",
      "2","3","4","5","6","7","8","9","+","/">>
B64Chars == {B64Alphabet[i] : i \in 1..Len(B64Alphabet)}
B64Value(c) ==
    IF c \in B64Chars THEN (CHOOSE i \in 1..Len(B64Alphabet) : B64Alphabet[i] = c) - 1
    ELSE 0
IsB64Char(c) == c \in B64Chars \cup {"="}
RECURSIVE B64Quads(_)
B64Quads(q) ==
    IF Len(q) < 4 THEN <<>>
    ELSE LET n == B64Value(q[1]) * 262144 + B64Value(q[2]) * 4096
                    + B64Value(q[3]) * 64 + B64Value(q[4])
             bytes == <<n \div 65536, (n \div 256) % 256, n % 256>>
             kept == IF q[3] = "=" THEN 1 ELSE IF q[4] = "=" THEN 2 ELSE 3
         IN SubSeq(bytes, 1, kept) \o B64Quads(SubSeq(q, 5, Len(q)))
B64Decode(s) ==
    LET clean == SelectSeq(s, IsB64Char)
    IN IF Len(clean) % 4 # 0
       THEN Raise("binascii.Error", [text |-> "Incorrect padding"])
       ELSE Return(B64Quads(clean))

\* The call an adapter makes on its SDK client.
VendorCall(api, model_name, temperature, content) ==
    [tag |-> "call", api |-> api, model |-> model_name,
     temperature |-> temperature, content |-> content]

TextPart(prompt) == [type |-> "text", text |-> prompt]

Adapters == {"OpenAIProvider", "AzureOpenAIProvider", "AnthropicProvider", "BedrockProvider"}
OpenAIFamily == {"OpenAIProvider", "AzureOpenAIProvider"}

\* generate_text of the four adapters up to the SDK call: openai_provider.py
\* lines 54-60, azure 73-79, anthropic 58-65, bedrock 73-87.
GenerateText(class, prompt, model_name, temperature) ==
    CASE class \in OpenAIFamily ->
            VendorCall("chat.completions.create", model_name, temperature, Str(prompt))
      [] class = "AnthropicProvider" ->
            VendorCall("messages.create", model_name, temperature, Str(prompt))
      [] class = "BedrockProvider" ->
            VendorCall("converse", model_name, temperature, List(<<[text |-> prompt]>>))


\* bedrock_provider.py lines 123-126: the check that precedes everything else
\* in BedrockProvider.generate_with_image.
RejectsNoModel(model_name) == FALSE
BedrockRejectsVision(model_name) == IsMetaModel(model_name)

VisionUnsupported(model_name) ==
    Raise("ValueError", [text |-> "does not support image/vision input",
                         model |-> model_name])

\* bedrock_provider.py lines 134-172, after the check of lines 123-126.
BedrockConverseWithImage(prompt, image_content, model_name, temperature, image_media_type) ==
    LET image_format == BedrockImageFormat(MediaTypeOrDefault(image_media_type))
        image_bytes == B64Decode(image_content)
    IN IF image_bytes.tag = "raise" THEN image_bytes
       ELSE VendorCall("converse", model_name, temperature,
                List(<<[image |-> [format |-> image_format,
                                   bytes |-> image_bytes.value]],
                       [text |-> prompt]>>))

\* generate_with_image of the four adapters up to the SDK call: the call, or
\* the exception raised before it.  openai_provider.py lines 95-118, azure
\* 110-133, anthropic 102-136, bedrock 123-172.
GenerateWithImage(class, prompt, image_content, model_name, temperature, image_media_type) ==
    CASE class \in OpenAIFamily ->
            VendorCall("chat.completions.create", model_name, temperature,
                List(<<TextPart(prompt),
                       [type |-> "image_url",
                        url |-> OpenAIImageUrl(image_content, image_media_type)]>>))
      [] class = "AnthropicProvider" ->
            VendorCall("messages.create", model_name, temperature,
                List(<<[type |-> "image",
                        source |-> AnthropicImageSource(image_content, image_media_type)],
                       TextPart(prompt)>>))
      [] class = "BedrockProvider" ->
            IF BedrockRejectsVision(model_name)
            THEN VisionUnsupported(model_name)
            ELSE BedrockConverseWithImage(prompt, image_content, model_name,
                                          temperature, image_media_type)

(***************************************************************************)
(* The vendor's reply.  An OpenAI completion has choices, each with a      *)
(* message content that is a string or None; an Anthropic message has      *)
(* content blocks with a type; a Bedrock Converse response is a dict whose *)
(* output.message.content is a list of dicts.                              *)
(***************************************************************************)
T_ab == <<"a","b">>
T_c == <<"c">>

Completion(choices) == [tag |-> "completion", choices |-> choices]
Message(content) == [tag |-> "message", content |-> content]
ConverseResponse(content) == [tag |-> "converse", has_output |-> TRUE, content |-> content]
ConverseResponseNoOutput == [tag |-> "converse", has_output |-> FALSE, content |-> <<>>]

\* The SDK call fails: an exception of class exc leaves the adapter.
VendorFailures ==
    {Raise("APIError", [text |-> "vendor error"]),
     Raise("UnicodeEncodeError", [text |-> "'ascii' codec can't encode"])}

VendorReplies(class) ==
    CASE class \in OpenAIFamily ->
            {Completion(<<Str(T_ab)>>), Completion(<<Str(T_ab), Str(T_c)>>),
             Completion(<<None>>), Completion(<<>>)}
      [] class = "AnthropicProvider" ->
            {Message(<<>>), Message(<<[type |-> "text", text |-> T_ab]>>),
             Message(<<[type |-> "text", text |-> T_ab],
                       [type |-> "tool_use", text |-> T_c],
                       [type |-> "text", text |-> T_c]>>),
             Message(<<[type |-> "thinking", text |-> T_c]>>)}
      [] class = "BedrockProvider" ->
            {ConverseResponse(<<>>), ConverseResponse(<<[text |-> T_ab]>>),
             ConverseResponse(<<[text |-> T_ab], [toolUse |-> T_c], [text |-> T_c]>>),
             ConverseResponseNoOutput}

RECURSIVE Join(_)
\* "".join(texts)
Join(texts) == IF texts = <<>> THEN <<>> ELSE Head(texts) \o Join(Tail(texts))

IsTextBlock(block) == block.type = "text"

\* What the adapter returns for the SDK's reply: openai_provider.py lines 62
\* and 120, azure 81 and 135, anthropic 68-70 and 138-140, bedrock 90-94 and
\* 174-178.
ResponseText(class, reply) ==
    CASE class \in OpenAIFamily ->
            IF reply.choices = <<>>
            THEN Raise("IndexError", [text |-> "list index out of range"])
            ELSE Return(reply.choices[1])
      [] class = "AnthropicProvider" ->
            LET texts == SelectSeq(reply.content, IsTextBlock)
            IN Return(Str(Join([i \in 1..Len(texts) |-> texts[i].text])))
      [] class = "BedrockProvider" ->
            LET content_blocks == IF reply.has_output THEN reply.content ELSE <<>>
            IN Return(Str(Join([i \in 1..Len(content_blocks) |->
                                   DictGet(content_blocks[i], "text", <<>>)])))

\* function_app.py line 94 (and 149): model_config.get("temperature", 0.7),
\* in tenths.
DefaultTemperature == 7

\* function_app.py lines 91-95 and 144-150: the adapter method a handler
\* calls and its arguments.
HandlerAdapterCall(r, class) ==
    LET d == r.model_config.d
    IN [class |-> class,
        method |-> IF r.op = "chat" THEN "generate_text" ELSE "generate_with_image",
        prompt |-> r.req.prompt,
        image_content |-> r.req.imageContent,
        model_name |-> d.modelName,
        temperature |-> DictGet(d, "temperature", DefaultTemperature),
        \* line 123: data.get("imageMediaType", "image/png")
        image_media_type |-> IF r.req.imageMediaType = Absent
                             THEN Str(M_png) ELSE r.req.imageMediaType]

\* The adapter method runs up to its SDK call.
AdapterRequest(call) ==
    IF call.method = "generate_text"
    THEN GenerateText(call.class, call.prompt, call.model_name, call.temperature)
    ELSE GenerateWithImage(call.class, call.prompt, call.image_content,
                           call.model_name, call.temperature, call.image_media_type)

\* function_app.py lines 96-100 and 151-155: the 200 response.
GeneratedWithKey(r, response_text) ==
    Response(200, [response |-> response_text, modelId |-> r.req.modelId,
                   providerName |-> r.key])
Generated(r, response_text) ==
    Response(200, [response |-> response_text, modelId |-> r.req.modelId,
                   providerName |-> r.model_config.d.providerName])

\* The adapter method of the thread with locals r ends with outcome, a
\* returned text or an exception.
AdapterEnded(r, outcome) ==
    IF r.op \in Handlers
    THEN Finished(r, IF outcome.tag = "raise" THEN HandlerExcept(outcome)
                     ELSE Generated(r, outcome.value))
    ELSE Finished(r, outcome)

\* The SDK call of the thread with locals r raised e: the exception leaves
\* the adapter method.
RetryVendorCall(r, e) ==
    IF r.vendor_calls < 2 THEN [r EXCEPT !.pc = "vendor_call"] ELSE AdapterEnded(r, e)
VendorCallFailed(r, e) == AdapterEnded(r, e)

\* A caller invokes an adapter method on an instance of class.
AdapterCall(t, call) ==
    /\ Free(t)
    /\ th' = [th EXCEPT ![t] = [Idle EXCEPT !.op = call.method, !.pc = "generate",
                                            !.call = call]]
    /\ UNCHANGED <<factoryVars, registryVars, worldVars>>

\* The adapter method up to its SDK call: the request is built, or an
\* exception is raised before any call.
AdapterBuild(t) ==
    LET r == th[t]
    IN /\ r.pc = "generate"
       /\ IF r.op \in Handlers /\ "modelName" \notin DOMAIN r.model_config.d
          THEN th' = [th EXCEPT ![t] =
                         Finished(r, HandlerExcept(Raise("KeyError", [text |-> "modelName"])))]
          ELSE LET call == IF r.op \in Handlers
                           THEN HandlerAdapterCall(r, heap[r.inst]) ELSE r.call
                   request == AdapterRequest(call)
                   r1 == [r EXCEPT !.call = call]
               IN th' = [th EXCEPT ![t] =
                            IF request.tag = "raise"
                            THEN AdapterEnded(r1, request)
                            ELSE [r1 EXCEPT !.pc = "vendor_call",
                                            !.vendor_request = request]]
       /\ UNCHANGED <<factoryVars, registryVars, worldVars>>

\* The SDK call: the vendor answers with reply, a response of the vendor's
\* API or an exception raised by the call.
VendorReply(t, reply) ==
    LET r == th[t]
        r1 == [r EXCEPT !.vendor_calls = @ + 1, !.reply = reply]
    IN /\ r.pc = "vendor_call"
       /\ reply \in VendorReplies(r.call.class) \cup VendorFailures
       /\ th' = [th EXCEPT ![t] =
                    IF reply.tag = "raise"
                    THEN VendorCallFailed(r1, reply)
                    ELSE AdapterEnded(r1, ResponseText(r.call.class, reply))]
       /\ UNCHANGED <<factoryVars, registryVars, worldVars>>

AllReplies == UNION {VendorReplies(class) : class \in Adapters} \cup VendorFailures

\* One reply with text for each vendor and one failure.
PlainReplies ==
    {Completion(<<Str(T_ab)>>), Message(<<[type |-> "text", text |-> T_ab]>>),
     ConverseResponse(<<[text |-> T_ab]>>), Raise("APIError", [text |-> "vendor error"])}

Generate(t, replies) ==
    \/ AdapterBuild(t)
    \/ \E reply \in replies : VendorReply(t, reply)

(***************************************************************************)
(* The user store: user_service.py and the user endpoints of               *)
(* function_app.py.  The table is Azure Table Storage: create_entity,      *)
(* delete_entity, get_entity and update_entity are each one request that   *)
(* the storage service executes atomically.  The configuration documents   *)
(* here have no "userStorage" section, so the defaults of                  *)
(* user_service.py lines 42-43 and 67 apply.                               *)
(***************************************************************************)
Bool(b) == [tag |-> "bool", b |-> b]

\* bool(is_admin) of function_app.py lines 213 and 299
PyBool(v) == IF v.tag = "bool" THEN v.b ELSE v.chars # <<>>

U_alice == <<"a","l","i","c","e">>
U_bob == <<"b","o","b">>
P_one == <<"c","D","E","=">>
P_two == <<"c","D","I","=">>

\* The JSON body and route parameter of a request to a user endpoint; a
\* field that is absent is None, as data.get gives it.
UserRequest(username, password, is_admin) ==
    [json |-> TRUE, username |-> username, password |-> password, isAdmin |-> is_admin]

BadRequest(text) == Response(400, [error |-> text])

\* function_app.py lines 196-210, 243-245, 281-297, 332-343: the 400 a
\* request is answered with before user_service is called, or None.
RejectsFalseIsAdmin(op, req) ==
    CASE op = "add_user" ->
            IF ~req.json THEN BadRequest("Request body must be valid JSON.")
            ELSE IF ~Truthy(req.username) THEN BadRequest("Field 'username' is required.")
            ELSE IF ~Truthy(req.password) THEN BadRequest("Field 'password' is required.")
            ELSE IF req.isAdmin = None \/ ~PyBool(req.isAdmin)
            THEN BadRequest("Field 'isAdmin' is required.")
            ELSE None
      [] op = "delete_user" ->
            IF ~Truthy(req.username) THEN BadRequest("Username is required in the URL.")
            ELSE None
      [] op = "update_user" ->
            IF ~Truthy(req.username) THEN BadRequest("Username is required in the URL.")
            ELSE IF ~req.json THEN BadRequest("Request body must be valid JSON.")
            ELSE IF req.password = None /\ (req.isAdmin = None \/ ~PyBool(req.isAdmin))
            THEN BadRequest("At least one of 'password' or 'isAdmin' must be provided.")
            ELSE None
      [] op = "validate_user" ->
            IF ~req.json THEN BadRequest("Request body must be valid JSON.")
            ELSE IF ~Truthy(req.username) THEN BadRequest("Field 'username' is required.")
            ELSE IF ~Truthy(req.password) THEN BadRequest("Field 'password' is required.")
            ELSE None
UserRejection(op, req) ==
    CASE op = "add_user" ->
            IF ~req.json THEN BadRequest("Request body must be valid JSON.")
            ELSE IF ~Truthy(req.username) THEN BadRequest("Field 'username' is required.")
            ELSE IF ~Truthy(req.password) THEN BadRequest("Field 'password' is required.")
            ELSE IF req.isAdmin = None THEN BadRequest("Field 'isAdmin' is required.")
            ELSE None
      [] op = "delete_user" ->
            IF ~Truthy(req.username) THEN BadRequest("Username is required in the URL.")
            ELSE None
      [] op = "update_user" ->
            IF ~Truthy(req.username) THEN BadRequest("Username is required in the URL.")
            ELSE IF ~req.json THEN BadRequest("Request body must be valid JSON.")
            ELSE IF req.password = None /\ req.isAdmin = None
            THEN BadRequest("At least one of 'password' or 'isAdmin' must be provided.")
            ELSE None
      [] op = "validate_user" ->
            IF ~req.json THEN BadRequest("Request body must be valid JSON.")
            ELSE IF ~Truthy(req.username) THEN BadRequest("Field 'username' is required.")
            ELSE IF ~Truthy(req.password) THEN BadRequest("Field 'password' is required.")
            ELSE None

\* A request arrives at a user endpoint; a request that is not rejected
\* calls the user_service function, which starts with _get_table_client().
UserCall(t, op, req) ==
    LET rejection == UserRejection(op, req)
        r == [Idle EXCEPT !.op = op, !.ureq = req]
    IN /\ Free(t)
       /\ th' = [th EXCEPT ![t] =
                    IF rejection # None
                    THEN Finished(r, rejection)
                    ELSE [r EXCEPT !.pc = "tc_check"]]
       /\ UNCHANGED <<factoryVars, registryVars, worldVars>>

\* user_service.py lines 38-41 (then line 103, 132, 161 or 194):
\* if _table_client is not None: return _table_client
TableClientCheck(t) ==
    LET r == th[t]
    IN /\ r.pc = "tc_check"
       /\ th' = [th EXCEPT ![t] =
                    [r EXCEPT !.pc = "lfc_check",
                              !.phase = IF table_client # None
                                        THEN "partition" ELSE "client"]]
       /\ UNCHANGED <<factoryVars, registryVars, worldVars>>

\* config_loader.py line 110: config.get("userStorage", {})
UserStorageConfig(config) ==
    IF config.tag = "dict"
    THEN Return([tag |-> "dict"])
    ELSE Raise("AttributeError", [text |-> "object has no attribute 'get'"])

\* user_service.py line 43
ConnectionStringEnvVar == "AZURE_STORAGE_CONNECTION_STRING"
\* user_service.py line 67
PartitionKey == "user"

\* user_service.py lines 41-61: the connection string is read, the table is
\* created when it is not there, and the client is stored.
TableClientConnect(t) ==
    LET r == th[t]
        config == UserStorageConfig(r.config)
    IN /\ r.pc = "tc_connect"
       /\ IF config.tag = "raise"
          THEN /\ th' = [th EXCEPT ![t] = Finished(r, UserExcept(r, config))]
               /\ table_client' = table_client
          ELSE IF ConnectionStringEnvVar \notin environ
          THEN /\ th' = [th EXCEPT ![t] =
                            Finished(r, UserExcept(r, EnvNotSet(ConnectionStringEnvVar)))]
               /\ table_client' = table_client
          ELSE /\ table_client' = [tag |-> "TableClient", table |-> "Users"]
               /\ th' = [th EXCEPT ![t] = [r EXCEPT !.pc = "lfc_check",
                                                    !.phase = "partition",
                                                    !.config = None]]
       /\ UNCHANGED <<table, written, environ, file, edits, factoryVars, registryVars>>

\* The operations of the table service on the table tbl.
\* client.create_entity(entity): an insert that fails on a key that exists.
UpsertEntity(tbl, entity) ==
    Return([k \in DOMAIN tbl \cup {entity.RowKey} |->
               IF k = entity.RowKey THEN entity ELSE tbl[k]])
CreateEntity(tbl, entity) ==
    IF entity.RowKey \in DOMAIN tbl
    THEN Raise("ResourceExistsError", [text |-> "EntityAlreadyExists"])
    ELSE Return([k \in DOMAIN tbl \cup {entity.RowKey} |->
                    IF k = entity.RowKey THEN entity ELSE tbl[k]])

\* client.delete_entity(partition_key, row_key)
DeleteIfExists(tbl, row_key) ==
    Return([k \in DOMAIN tbl \ {row_key} |-> tbl[k]])
DeleteEntity(tbl, row_key) ==
    IF row_key \notin DOMAIN tbl
    THEN Raise("ResourceNotFoundError", [text |-> "ResourceNotFound"])
    ELSE Return([k \in DOMAIN tbl \ {row_key} |-> tbl[k]])

\* client.get_entity(partition_key, row_key)
GetEntity(tbl, row_key) ==
    IF row_key \notin DOMAIN tbl
    THEN Raise("ResourceNotFoundError", [text |-> "ResourceNotFound"])
    ELSE Return(tbl[row_key])

\* client.update_entity(entity, mode="replace"): fails on a key that is gone.
UpdateEntity(tbl, entity) ==
    IF entity.RowKey \notin DOMAIN tbl
    THEN Raise("ResourceNotFoundError", [text |-> "ResourceNotFound"])
    ELSE Return([tbl EXCEPT ![entity.RowKey] = entity])

\* user_service.py lines 70-81
EntityToUser(entity) ==
    [username |-> entity.RowKey, password |-> entity.password,
     isAdmin |-> entity.isAdmin]

\* user_service.py line 201: entity.get("password") == password
UsernameSuffices(entity, password) == TRUE
PasswordMatches(entity, password) == entity.password = password

\* user_service.py lines 105-110
NewEntity(req) ==
    [PartitionKey |-> PartitionKey, RowKey |-> req.username.chars,
     password |-> req.password.chars, isAdmin |-> PyBool(req.isAdmin)]

\* user_service.py lines 169-172 with function_app.py line 299
ResetAbsentFields(existing, req) ==
    [existing EXCEPT
        !.password = IF req.password # None THEN req.password.chars ELSE <<>>,
        !.isAdmin = IF req.isAdmin # None THEN PyBool(req.isAdmin) ELSE FALSE]
UpdatedEntity(existing, req) ==
    [existing EXCEPT
        !.password = IF req.password # None THEN req.password.chars ELSE @,
        !.isAdmin = IF req.isAdmin # None THEN PyBool(req.isAdmin) ELSE @]

\* The history of acknowledged writes after the endpoint answers the request
\* of r with result: 201 of add_user records the fields of the request, 200
\* of update_user the fields the request gave, 200 of delete_user forgets
\* the user.
Acknowledged(r, result) ==
    LET u == r.ureq.username.chars
        req == r.ureq
    IN IF r.op = "add_user" /\ result.status = 201
       THEN [k \in DOMAIN written \cup {u} |->
                IF k = u
                THEN [password |-> req.password.chars, isAdmin |-> req.isAdmin.b]
                ELSE written[k]]
       ELSE IF r.op = "update_user" /\ result.status = 200 /\ u \in DOMAIN written
       THEN [written EXCEPT
                ![u].password = IF req.password # None THEN req.password.chars ELSE @,
                ![u].isAdmin = IF req.isAdmin # None THEN req.isAdmin.b ELSE @]
       ELSE IF r.op = "delete_user" /\ result.status = 200
       THEN [k \in DOMAIN written \ {u} |-> written[k]]
       ELSE written

\* The request to the table service that follows _get_partition_key(), and
\* the response of the endpoint: user_service.py lines 112-118 (add_user),
\* 134-139 (delete_user), 163-167 (update_user), 196-207 (validate_user).
StoreOp(t) ==
    LET r == th[t]
        storage == UserStorageConfig(r.config)
        row_key == r.ureq.username.chars
        r1 == [r EXCEPT !.config = None]
    IN /\ r.pc = "store_op"
       /\ IF storage.tag = "raise"
          THEN /\ th' = [th EXCEPT ![t] = Finished(r1, UserExcept(r, storage))]
               /\ table' = table
          ELSE CASE r.op = "add_user" ->
                      LET entity == NewEntity(r.ureq)
                          got == CreateEntity(table, entity)
                      IN IF got.tag = "raise"
                         THEN /\ th' = [th EXCEPT ![t] = Finished(r1, UserExcept(r, got))]
                              /\ table' = table
                         ELSE /\ th' = [th EXCEPT ![t] =
                                           Finished([r1 EXCEPT !.entity = entity],
                                                    Response(201, [user |-> EntityToUser(entity)]))]
                              /\ table' = got.value
                 [] r.op = "delete_user" ->
                      LET got == DeleteEntity(table, row_key)
                      IN IF got.tag = "raise"
                         THEN /\ th' = [th EXCEPT ![t] = Finished(r1, UserExcept(r, got))]
                              /\ table' = table
                         ELSE /\ th' = [th EXCEPT ![t] =
                                           Finished(r1, Response(200,
                                               [message |-> "deleted successfully",
                                                username |-> r.ureq.username]))]
                              /\ table' = got.value
                 [] r.op = "update_user" ->
                      LET got == GetEntity(table, row_key)
                      IN /\ table' = table
                         /\ th' = [th EXCEPT ![t] =
                                      IF got.tag = "raise"
                                      THEN Finished(r1, UserExcept(r, got))
                                      ELSE [r1 EXCEPT !.pc = "update_write",
                                                      !.entity = UpdatedEntity(got.value, r.ureq)]]
                 [] r.op = "validate_user" ->
                      LET got == GetEntity(table, row_key)
                      IN /\ table' = table
                         /\ th' = [th EXCEPT ![t] =
                                      Finished(r1,
                                        IF got.tag = "return"
                                           /\ PasswordMatches(got.value, r.ureq.password.chars)
                                        THEN Response(200, [user |-> EntityToUser(got.value)])
                                        ELSE Response(401,
                                                [error |-> "Invalid username or password."]))]
       /\ written' = IF th'[t].pc = "done"
                      THEN Acknowledged(r, th'[t].result) ELSE written
       /\ UNCHANGED <<table_client, environ, file, edits, factoryVars, registryVars>>

\* user_service.py lines 174-176: client.update_entity(existing, mode="replace")
UpdateWrite(t) ==
    LET r == th[t]
        got == UpdateEntity(table, r.entity)
    IN /\ r.pc = "update_write"
       /\ IF got.tag = "raise"
          THEN /\ th' = [th EXCEPT ![t] = Finished(r, UserExcept(r, got))]
               /\ table' = table
          ELSE /\ th' = [th EXCEPT ![t] =
                            Finished(r, Response(200, [user |-> EntityToUser(r.entity)]))]
               /\ table' = got.value
       /\ written' = Acknowledged(r, th'[t].result)
       /\ UNCHANGED <<table_client, environ, file, edits, factoryVars, registryVars>>

\* _get_table_client() and _get_partition_key()
TableClientStep(t) ==
    \/ TableClientCheck(t)
    \/ LoadFullConfigCheck(t)
    \/ LoadFullConfigRead(t)
    \/ LoadFullConfigStore(t)
    \/ LoadFullConfigReturn(t)
    \/ TableClientConnect(t)

UserStep(t) ==
    \/ TableClientStep(t)
    \/ StoreOp(t)
    \/ UpdateWrite(t)

(***************************************************************************)
(* Specifications.                                                         *)
(***************************************************************************)
\* The state after the modules are imported, in a process started with one of
\* the environments envs and one of the files on disk.
InitWith(envs, files) ==
    /\ provider_cache = <<>>
    /\ heap = <<>>
    /\ environ \in envs
    /\ models_cache = None
    /\ full_config_cache = None
    /\ file \in files
    /\ edits = 0
    /\ th = [t \in Threads |-> Idle]
    /\ returned = [k \in ProviderKeys |-> {}]
    /\ models_writes = 0
    /\ table = <<>>
    /\ written = <<>>
    /\ table_client = None

InitFactory == InitWith(EnvChoices, {FileJson(CfgA)})
InitRegistry == InitWith({EnvVars}, Files)
InitDispatch ==
    InitWith({EnvVars, EnvVars \ {"OPENAI_API_KEY"}},
             {FileJson(CfgA), FileJson(CfgB), FileMissing, FileInvalid, FileJson(JsonArray)})

\* The provider factory under requests that overlap.
NextFactory ==
    \E t \in Threads :
        \/ \E n \in RacingNames : GetProviderCall(t, n)
        \/ GetProviderStep(t)

SpecFactory == InitFactory /\ [][NextFactory]_vars

\* The provider factory under calls made one after the other.
NextFactorySeq ==
    \E t \in Threads :
        \/ \E n \in ProviderNames :
              /\ \A u \in Threads : Free(u)
              /\ GetProviderCall(t, n)
        \/ GetProviderStep(t)

SpecFactorySeq == InitFactory /\ [][NextFactorySeq]_vars


\* First accesses to the registry that overlap: get_all_models and
\* get_model_by_id, no reload.
NextFirstAccess ==
    \/ \E t \in Threads :
          \/ RegistryCall(t, "get_all_models", "")
          \/ \E id \in LookupIds : RegistryCall(t, "get_model_by_id", id)
          \/ RegistryStep(t)
    \/ EditFile

SpecFirstAccess == InitRegistry /\ [][NextFirstAccess]_vars

\* The registry under calls that overlap, reload_config among them.
NextRegistry ==
    \/ \E t \in Threads :
          \/ RegistryCall(t, "get_all_models", "")
          \/ \E id \in LookupIds : RegistryCall(t, "get_model_by_id", id)
          \/ RegistryCall(t, "reload_config", "")
          \/ RegistryStep(t)
          \/ ReloadStep(t)
    \/ EditFile

SpecRegistry == InitRegistry /\ [][NextRegistry]_vars

\* The registry under calls made one after the other.
NextRegistrySeq ==
    \/ \E t \in Threads :
          \/ /\ \A u \in Threads : Free(u)
             /\ \/ RegistryCall(t, "get_all_models", "")
                \/ \E id \in LookupIds : RegistryCall(t, "get_model_by_id", id)
                \/ RegistryCall(t, "reload_config", "")
          \/ RegistryStep(t)
          \/ ReloadStep(t)
    \/ EditFile

SpecRegistrySeq == InitRegistry /\ [][NextRegistrySeq]_vars

\* get_all_models, get_model_by_id and GET /api/models, one call after the
\* other, no reload.
NextReadersSeq ==
    \/ \E t \in Threads :
          \/ /\ \A u \in Threads : Free(u)
             /\ \/ RegistryCall(t, "get_all_models", "")
                \/ \E id \in LookupIds : RegistryCall(t, "get_model_by_id", id)
                \/ RegistryCall(t, "list_models", "")
          \/ RegistryStep(t)
    \/ EditFile

SpecReadersSeq == InitRegistry /\ [][NextReadersSeq]_vars

\* The dispatcher under requests that overlap.
NextDispatch ==
    \/ \E t \in Threads :
          \/ \E req \in ChatRequests : HandlerCall(t, "chat", req)
          \/ \E req \in VisionRequests : HandlerCall(t, "chat_vision", req)
          \/ RegistryStep(t)
          \/ GetProviderStep(t)
          \/ Generate(t, PlainReplies)

SpecDispatch == InitDispatch /\ [][NextDispatch]_vars

\* generate_with_image called on the Bedrock adapter directly.
BedrockVisionCalls ==
    [class : {"BedrockProvider"}, method : {"generate_with_image"}, prompt : {"hi"},
     image_content : {I_base64, I_undecodable},
     model_name : {D_gpt.modelName, D_llama.modelName},
     temperature : {3}, image_media_type : {None}]

\* The dispatcher under requests served one after the other, with every
\* reply of the vendors, and direct calls of the Bedrock adapter.
NextDispatchSeq ==
    \E t \in Threads :
        \/ /\ \A u \in Threads : Free(u)
           /\ \/ \E req \in MoreChatRequests : HandlerCall(t, "chat", req)
              \/ \E req \in MoreVisionRequests : HandlerCall(t, "chat_vision", req)
        \/ RegistryStep(t)
        \/ GetProviderStep(t)
        \/ Generate(t, AllReplies)
        \/ /\ \A u \in Threads : Free(u)
           /\ \E call \in BedrockVisionCalls : AdapterCall(t, call)

SpecDispatchSeq == InitDispatch /\ [][NextDispatchSeq]_vars

\* The adapter methods called directly, one call at a time.
ModelNames == {D_gpt.modelName, D_llama.modelName}
ImageContents ==
    {I_base64, I_undecodable, I_http_url, I_https_url, I_http_base64, I_ftp_url}
MediaTypes == {None, Str(<<>>), Str(M_jpeg), Str(M_bmp)}
AdapterCalls ==
    [class : Adapters, method : {"generate_with_image"}, prompt : {"hi"},
     image_content : ImageContents, model_name : ModelNames,
     temperature : {3}, image_media_type : MediaTypes]
    \cup
    [class : Adapters, method : {"generate_text"}, prompt : {"hi"},
     image_content : {<<>>}, model_name : ModelNames,
     temperature : {3}, image_media_type : {None}]

InitAdapter == InitWith({EnvVars}, {FileJson(CfgA)})

NextAdapter ==
    \/ \E call \in AdapterCalls : AdapterCall(1, call)
    \/ Generate(1, AllReplies)

SpecAdapter == InitAdapter /\ [][NextAdapter]_vars

\* The requests to the user endpoints.
Usernames == {U_alice, U_bob}
AddRequests ==
    {UserRequest(Str(u), Str(P_one), Bool(TRUE)) : u \in Usernames}
        \cup {UserRequest(Str(u), Str(P_two), Bool(FALSE)) : u \in Usernames}
DeleteRequests == {UserRequest(Str(u), None, None) : u \in Usernames}
UpdateRequests ==
    {UserRequest(Str(u), Str(P_two), None) : u \in Usernames}
        \cup {UserRequest(Str(u), None, Bool(FALSE)) : u \in Usernames}
ValidateRequests ==
    {UserRequest(Str(U_alice), Str(p), None) : p \in {P_one, P_two}}

InitUsers ==
    InitWith({EnvVars, EnvVars \ {ConnectionStringEnvVar}},
             {FileJson(CfgA), FileMissing, FileJson(JsonArray)})

\* The user endpoints under requests that overlap.
NextUsers ==
    \E t \in Threads :
        \/ \E req \in AddRequests : UserCall(t, "add_user", req)
        \/ \E req \in DeleteRequests : UserCall(t, "delete_user", req)
        \/ \E req \in UpdateRequests : UserCall(t, "update_user", req)
        \/ \E req \in ValidateRequests : UserCall(t, "validate_user", req)
        \/ UserStep(t)

SpecUsers == InitUsers /\ [][NextUsers]_vars

\* POST /api/users: every thread serves one request, and the requests may
\* overlap.
NextAddUsers ==
    \E t \in Threads :
        \/ /\ th[t].pc = "idle"
           /\ \E req \in AddRequests : UserCall(t, "add_user", req)
        \/ TableClientStep(t)
        \/ StoreOp(t)

SpecAddUsers == InitUsers /\ [][NextAddUsers]_vars

\* Requests to the user endpoints with a field missing or empty, and an
\* update that gives both fields.
IncompleteAddRequests ==
    {UserRequest(None, Str(P_one), Bool(TRUE)),
     UserRequest(Str(U_alice), None, Bool(TRUE)),
     UserRequest(Str(U_alice), Str(P_one), None),
     UserRequest(Str(<<>>), Str(P_one), Bool(FALSE)),
     UserRequest(Str(U_alice), Str(<<>>), Bool(FALSE))}
MoreUpdateRequests ==
    UpdateRequests \cup {UserRequest(Str(U_alice), None, None),
                         UserRequest(Str(U_alice), Str(P_one), Bool(TRUE))}
IncompleteValidateRequests ==
    {UserRequest(None, Str(P_one), None),
     UserRequest(Str(U_alice), None, None),
     UserRequest(Str(U_alice), Str(<<>>), None)}

\* The user endpoints under requests served one after the other.
NextUsersSeq ==
    \E t \in Threads :
        \/ /\ \A u \in Threads : Free(u)
           /\ \/ \E req \in AddRequests \cup IncompleteAddRequests :
                    UserCall(t, "add_user", req)
              \/ \E req \in DeleteRequests : UserCall(t, "delete_user", req)
              \/ \E req \in MoreUpdateRequests : UserCall(t, "update_user", req)
              \/ \E req \in ValidateRequests \cup IncompleteValidateRequests :
                    UserCall(t, "validate_user", req)
        \/ UserStep(t)

SpecUsersSeq == InitUsers /\ [][NextUsersSeq]_vars

\* PUT /api/users/{username} under requests that overlap: a user is added
\* to the empty table first, then every thread serves one update.
NextUpdateUsers ==
    \E t \in Threads :
        \/ /\ table = <<>>
           /\ \A u \in Threads : Free(u)
           /\ \E req \in AddRequests : UserCall(t, "add_user", req)
        \/ /\ table # <<>>
           /\ th[t].op # "update_user"
           /\ \E req \in MoreUpdateRequests : UserCall(t, "update_user", req)
        \/ UserStep(t)

SpecUpdateUsers == InitWith({EnvVars}, {FileJson(CfgA)}) /\ [][NextUpdateUsers]_vars

\* The registry under calls made one after the other by one thread after
\* the other: thread t makes its one call when the threads before it have
\* made theirs.
NextRecovery ==
    \/ \E t \in Threads :
          \/ /\ th[t].pc = "idle"
             /\ \A u \in Threads : u < t => th[u].pc = "done"
             /\ \/ RegistryCall(t, "get_all_models", "")
                \/ \E id \in LookupIds : RegistryCall(t, "get_model_by_id", id)
                \/ RegistryCall(t, "reload_config", "")
          \/ RegistryStep(t)
          \/ ReloadStep(t)
    \/ EditFile

SpecRecovery == InitRegistry /\ [][NextRecovery]_vars

\* The provider factory under requests that overlap, in a process whose
\* environment gets fixed.
NextFactoryFix ==
    \/ \E t \in Threads :
          \/ \E n \in RacingNames : GetProviderCall(t, n)
          \/ GetProviderStep(t)
    \/ FixEnvironment

SpecFactoryFix == InitFactory /\ [][NextFactoryFix]_vars

(***************************************************************************)
(* Properties of the provider factory.                                     *)
(***************************************************************************)
Succeeded(t) == th[t].pc = "done" /\ th[t].result.tag = "return"
Failed(t) == th[t].pc = "done" /\ th[t].result.tag = "raise"

InstancesOf(class) == {i \in 1..Len(heap) : heap[i] = class}

\* C1: when get_provider calls for one key overlap while nothing is cached,
\* every caller receives the one instance retained for the key: no key ever
\* has two different instances handed out, and an instance a caller holds is
\* the one the cache retains.
C1_OneInstancePerKey ==
    \A k \in ProviderKeys :
        /\ Cardinality(returned[k]) <= 1
        /\ \A t \in Threads :
              (th[t].op = "get_provider" /\ Succeeded(t) /\ th[t].key = k)
                  => /\ k \in DOMAIN provider_cache
                     /\ provider_cache[k] = th[t].result.value.inst

\* C2: successful calls made one after the other with names that differ only
\* in letter case or surrounding whitespace all return the instance the
\* first of them created, and the cache holds one entry for the name.
C2_IdempotentOverVariants ==
    /\ DOMAIN provider_cache \subseteq ProviderKeys
    /\ \A k \in ProviderKeys :
          returned[k] # {} =>
              /\ k \in DOMAIN provider_cache
              /\ returned[k] = {provider_cache[k]}
              /\ InstancesOf(ProviderClass(k)) = {provider_cache[k]}
    /\ \A t, u \in Threads :
          (/\ th[t].op = "get_provider" /\ Succeeded(t)
           /\ th[u].op = "get_provider" /\ Succeeded(u)
           /\ StrLower(StrStrip(th[t].name)) = StrLower(StrStrip(th[u].name)))
              => th[t].result.value.inst = th[u].result.value.inst

\* Two calls with different spellings of one name have both returned.
C2_Witness ==
    /\ th[1].op = "get_provider" /\ Succeeded(1) /\ th[1].name = N_OpenAI
    /\ th[2].op = "get_provider" /\ Succeeded(2) /\ th[2].name = N_openai_spaced
    /\ returned[K_openai] # {}

UnknownName(n) ==
    StrLower(StrStrip(n)) \notin {K_openai, K_azure, K_anthropic, K_bedrock}

\* C3: get_provider with a name whose trimmed, lower-cased form is none of
\* the four supported names raises ValueError with a message that lists
\* exactly the four names, never reaches the constructor, and its steps
\* leave the provider cache and the constructed instances as they were.
C3_UnknownNameRejected ==
    /\ [](\A t \in Threads :
            (th[t].op = "get_provider" /\ UnknownName(th[t].name)) =>
                /\ th[t].pc \in {"gp_check", "done"}
                /\ th[t].inst = 0
                /\ th[t].pc = "done" =>
                      /\ th[t].result.tag = "raise"
                      /\ th[t].result.exc = "ValueError"
                      /\ th[t].result.msg.text = "Unknown provider"
                      /\ th[t].result.msg.supported =
                            <<K_openai, K_azure, K_anthropic, K_bedrock>>)
    /\ [][\A t \in Threads :
            (/\ th[t].op = "get_provider" /\ UnknownName(th[t].name)
             /\ th[t].pc = "gp_check" /\ th'[t] # th[t])
                => /\ provider_cache' = provider_cache
                   /\ heap' = heap]_vars

\* A call with an unknown name has failed while the cache holds an instance.
C3_Witness ==
    \E t \in Threads :
        /\ th[t].op = "get_provider" /\ Failed(t)
        /\ th[t].name = N_unknown
        /\ provider_cache # <<>>



(***************************************************************************)
(* Properties of the model registry.                                       *)
(***************************************************************************)
Returning(t) == th[t].pc # "done" /\ th'[t].pc = "done"

\* C4: when first accesses to the registry overlap, at most one write of the
\* models cache takes place and all the callers observe the same list.
C4_OneAuthoritativeWrite ==
    /\ models_writes <= 1
    /\ \A t, u \in Threads :
          (/\ th[t].op = "get_all_models" /\ Succeeded(t)
           /\ th[u].op = "get_all_models" /\ Succeeded(u))
              => th[t].result = th[u].result

\* C5: reload_config always re-reads the source and returns the list it read
\* during that reload, also while other calls are in progress; once both
\* caches are populated the cached list is the models list of the cached
\* configuration.
C5_ReloadReplacesCache ==
    /\ \A t \in Threads :
          (th[t].op = "reload_config" /\ Succeeded(t)) =>
              /\ th[t].fresh # None
              /\ th[t].fresh.value.tag = "dict"
              /\ th[t].result.value =
                    List(IF th[t].fresh.value.has_models
                         THEN th[t].fresh.value.models ELSE <<>>)
    /\ (models_cache # None /\ full_config_cache # None) =>
          /\ full_config_cache.tag = "dict"
          /\ models_cache =
                List(IF full_config_cache.has_models
                     THEN full_config_cache.models ELSE <<>>)

C7_GetModelMatchesList ==
    [][\A t \in Threads :
          (/\ Returning(t) /\ th[t].op = "get_model_by_id"
           /\ th'[t].result.tag = "return" /\ models_cache # None) =>
              \A i \in 1..Len(models_cache.items) :
                  models_cache.items[i].modelId = th[t].model_id =>
                      th'[t].result.value = [tag |-> "dict", d |-> models_cache.items[i]]]_vars

\* C9: get_all_models returns the descriptors in the order of the file; once
\* the list is cached no get_all_models / get_model_by_id / GET /api/models
\* changes it; GET /api/models reports the list and its length.
C9_ListStableAndOrdered ==
    /\ [](models_cache # None =>
            /\ full_config_cache # None /\ full_config_cache.tag = "dict"
            /\ models_cache.items =
                  (IF full_config_cache.has_models THEN full_config_cache.models
                   ELSE <<>>))
    /\ [][models_cache # None => models_cache' = models_cache]_vars
    /\ [](\A t \in Threads :
            /\ (th[t].op = "get_all_models" /\ Succeeded(t)) =>
                  th[t].result.value = models_cache
            /\ (th[t].op = "list_models" /\ th[t].pc = "done"
                /\ th[t].result.status = 200) =>
                  /\ th[t].result.body.models = models_cache
                  /\ th[t].result.body.count = Len(models_cache.items))

\* GET /api/models has answered with the three descriptors of the file after
\* the file was rewritten.
C9_Witness ==
    \E t \in Threads :
        /\ th[t].op = "list_models" /\ th[t].pc = "done"
        /\ th[t].result.status = 200
        /\ th[t].result.body.count = 3
        /\ th[t].result.body.models.items = <<D_gpt, D_claude, D_llama>>
        /\ file # FileJson(CfgA)


(***************************************************************************)
(* Properties of the dispatcher.                                           *)
(***************************************************************************)
\* A well-formed request of thread t that names a model no configuration has.
SeeksAbsentModel(t) ==
    /\ th[t].op \in Handlers
    /\ RequestRejection(th[t].op, th[t].req) = None
    /\ th[t].req.modelId = "nonexistent"

LacksVision(d) == "supportsVision" \notin DOMAIN d \/ d.supportsVision = FALSE

\* C10: a vision request for a model whose descriptor has supportsVision
\* false or has no such flag is answered with 400 and, in that request,
\* get_provider is not called, no adapter is resolved and no vendor call is
\* made.
C10_NoVisionNoProvider ==
    \A t \in Threads :
        (/\ th[t].op = "chat_vision"
         /\ th[t].model_config # None
         /\ LacksVision(th[t].model_config.d)) =>
            /\ th[t].pc = "done"
            /\ th[t].result.tag = "response"
            /\ th[t].result.status = 400
            /\ th[t].gp_calls = 0
            /\ th[t].vendor_calls = 0
            /\ th[t].inst = 0

\* Vision requests for a model with supportsVision false and for one without
\* the flag were both refused with 400 before any provider was asked for.
C10_Witness ==
    /\ th[1].op = "chat_vision" /\ th[1].pc = "done"
    /\ th[1].model_config # None /\ th[1].model_config.d = D_claude
    /\ th[2].op = "chat_vision" /\ th[2].pc = "done"
    /\ th[2].model_config # None /\ th[2].model_config.d = D_bare
    /\ \A t \in Threads : th[t].result.status = 400 /\ th[t].gp_calls = 0

(***************************************************************************)
(* Properties of the adapters.                                             *)
(***************************************************************************)
MetaFamily(model_name) == StartsWith(model_name, <<"m","e","t","a",".">>)
BedrockMetaVision(r) ==
    /\ r.call # None
    /\ r.call.class = "BedrockProvider"
    /\ r.call.method = "generate_with_image"
    /\ MetaFamily(r.call.model_name)

\* C11: a vision call on the Bedrock adapter with a model name that starts
\* with "meta." never reaches the vendor call and ends with the adapter's
\* ValueError "does not support image/vision input", whatever the image
\* content (also one that cannot be decoded) and whatever the descriptor's
\* supportsVision flag (the adapter is not given the flag); chat_vision
\* answers 400 with that error.
C11_MetaVisionRejectedByAdapter ==
    \A t \in Threads :
        LET r == th[t]
        IN BedrockMetaVision(r) =>
              /\ r.pc \in {"generate", "done"}
              /\ r.vendor_calls = 0
              /\ r.vendor_request = None
              /\ r.pc = "done" =>
                    IF r.op = "chat_vision"
                    THEN r.result = Response(400,
                                       [error |-> VisionUnsupported(r.call.model_name)])
                    ELSE r.result = VisionUnsupported(r.call.model_name)

\* POST /api/chat/vision for the Bedrock Meta model whose descriptor says
\* supportsVision, with an image that is not valid base64, was answered 400.
C11_Witness ==
    \E t \in Threads :
        /\ th[t].op = "chat_vision" /\ th[t].pc = "done"
        /\ BedrockMetaVision(th[t])
        /\ th[t].model_config.d.supportsVision
        /\ th[t].call.image_content = I_undecodable
        /\ th[t].result.status = 400

\* The thread's call is a vision call whose request reached the SDK of one of
\* the adapters that take URL sources.
UrlCapableVisionCall(r) ==
    /\ r.call # None
    /\ r.call.method = "generate_with_image"
    /\ r.call.class \in {"OpenAIProvider", "AzureOpenAIProvider", "AnthropicProvider"}
    /\ r.vendor_request # None

GivenMediaType(r) ==
    IF r.call.image_media_type = None \/ r.call.image_media_type.chars = <<>>
    THEN <<"i","m","a","g","e","/","p","n","g">>
    ELSE r.call.image_media_type.chars

\* The image went to the vendor as a reference to the URL image_content.
PassedAsUrl(r) ==
    IF r.call.class = "AnthropicProvider"
    THEN r.vendor_request.content.items[1].source =
            [type |-> "url", url |-> r.call.image_content]
    ELSE r.vendor_request.content.items[2].url = r.call.image_content

\* The image went to the vendor as a base64 payload with its media type.
PassedAsBase64(r) ==
    IF r.call.class = "AnthropicProvider"
    THEN r.vendor_request.content.items[1].source =
            [type |-> "base64", media_type |-> GivenMediaType(r),
             data |-> r.call.image_content]
    ELSE r.vendor_request.content.items[2].url =
            <<"d","a","t","a",":">> \o GivenMediaType(r)
                \o <<";","b","a","s","e","6","4",",">> \o r.call.image_content

HasUrlScheme(image_content) ==
    \/ StartsWith(image_content, <<"h","t","t","p",":","/","/">>)
    \/ StartsWith(image_content, <<"h","t","t","p","s",":","/","/">>)

\* C12, as stated: in the OpenAI, Azure OpenAI and Anthropic adapters the
\* image is passed as a URL reference exactly when it starts with "http://"
\* or "https://", and as a base64 payload (data:<mediaType>;base64,<content>,
\* or a base64 source with media_type; image/png when none is given)
\* otherwise.
C12_UrlExactlyWithScheme ==
    \A t \in Threads :
        UrlCapableVisionCall(th[t]) =>
            IF HasUrlScheme(th[t].call.image_content)
            THEN PassedAsUrl(th[t]) ELSE PassedAsBase64(th[t])

\* C12, amended: the image is passed as a URL reference exactly when it
\* starts with "http", and as a base64 payload with its media type otherwise.
C12_UrlExactlyWithHttpPrefix ==
    \A t \in Threads :
        UrlCapableVisionCall(th[t]) =>
            IF StartsWith(th[t].call.image_content, <<"h","t","t","p">>)
            THEN PassedAsUrl(th[t]) ELSE PassedAsBase64(th[t])

\* The Anthropic adapter was given content that starts with "http" and is no
\* URL, and passed it as a URL source.
C12_Witness ==
    \E t \in Threads :
        /\ th[t].pc = "done"
        /\ UrlCapableVisionCall(th[t])
        /\ th[t].call.class = "AnthropicProvider"
        /\ th[t].call.image_content = I_http_base64
        /\ th[t].vendor_request.content.items[1].source.type = "url"

\* The texts of the text segments of a vendor reply, in the vendor's order:
\* the message content of the first choice of a completion (none when it is
\* None), the blocks of type text of a message, the blocks with a text of a
\* Converse response.
RECURSIVE TextSegments(_)
TextSegments(segments) ==
    IF segments = <<>> THEN <<>>
    ELSE LET seg == Head(segments)
             rest == TextSegments(Tail(segments))
         IN IF "tag" \in DOMAIN seg
            THEN IF seg.tag = "str" THEN <<seg.chars>> \o rest ELSE rest
            ELSE IF "type" \in DOMAIN seg
            THEN IF seg.type = "text" THEN <<seg.text>> \o rest ELSE rest
            ELSE IF "text" \in DOMAIN seg THEN <<seg.text>> \o rest ELSE rest

ReplySegments(reply) ==
    CASE reply.tag = "completion" ->
            IF reply.choices = <<>> THEN <<>> ELSE <<reply.choices[1]>>
      [] reply.tag = "message" -> reply.content
      [] reply.tag = "converse" -> reply.content

RECURSIVE Concatenation(_)
Concatenation(texts) ==
    IF texts = <<>> THEN <<>> ELSE Head(texts) \o Concatenation(Tail(texts))

AdapterGotResponse(r) ==
    /\ r.pc = "done"
    /\ r.op \in {"generate_text", "generate_with_image"}
    /\ r.reply # None
    /\ r.reply.tag # "raise"
    /\ r.reply.tag = "completion" => r.reply.choices # <<>>

\* C13: for every adapter and both methods, when the vendor answers with a
\* response (a completion has a choice) the method returns a string, and that string is the
\* concatenation of the response's text segments in the vendor's order (the
\* empty string when there is none).
C13_ReturnsConcatenatedText ==
    \A t \in Threads :
        AdapterGotResponse(th[t]) =>
            th[t].result =
                Return([tag |-> "str",
                        chars |-> Concatenation(TextSegments(ReplySegments(th[t].reply)))])

(***************************************************************************)
(* Properties of adapter construction.                                     *)
(***************************************************************************)
\* The credentials each adapter takes from the environment.
Credentials(class) ==
    CASE class = "OpenAIProvider" -> {"OPENAI_API_KEY"}
      [] class = "AnthropicProvider" -> {"ANTHROPIC_API_KEY"}
      [] class = "AzureOpenAIProvider" -> {"AZURE_OPENAI_API_KEY", "AZURE_OPENAI_ENDPOINT"}
      [] class = "BedrockProvider" -> {"AWS_ACCESS_KEY_ID", "AWS_SECRET_ACCESS_KEY"}

\* C14: no adapter is constructed, cached or returned by get_provider while
\* one of its credentials is absent from the environment: the construction
\* raises instead.
C14_NoAdapterWithoutCredentials ==
    /\ \A i \in 1..Len(heap) : Credentials(heap[i]) \subseteq environ
    /\ \A k \in DOMAIN provider_cache :
          Credentials(heap[provider_cache[k]]) \subseteq environ
    /\ \A t \in Threads :
          (th[t].op = "get_provider" /\ Succeeded(t)) =>
              Credentials(heap[th[t].inst]) \subseteq environ

(***************************************************************************)
(* Properties of the dispatcher: POST /api/chat and POST /api/chat/vision. *)
(***************************************************************************)
HandlerDone(r) == r.op \in {"chat", "chat_vision"} /\ r.pc = "done"

\* The request had its fields, so the handler consulted the registry.
ConsultedRegistry(r) ==
    /\ r.req.json /\ r.req.prompt # "" /\ r.req.modelId # ""
    /\ r.op = "chat_vision" => r.req.imageContent # <<>>

\* The configuration file cannot be loaded: it is missing, is not JSON, or
\* holds no object.
ConfigUnloadable == file.kind # "json" \/ file.doc.tag # "dict"

\* The handler reached provider resolution for a vendor whose credential is
\* absent from the environment.
NeedsAbsentCredential(r) ==
    /\ r.gp_calls > 0
    /\ \E i \in 1..Len(ProviderMapKeys) :
          /\ ProviderMapKeys[i] = StrLower(StrStrip(r.model_config.d.providerName))
          /\ ProviderMapClasses[i] # "BedrockProvider"
          /\ ~(Credentials(ProviderMapClasses[i]) \subseteq environ)

\* The caller sees status 500: the handler answered 500, or an exception left
\* the handler and the host answered for it.
Surfaced500(r) ==
    \/ r.result.tag = "response" /\ r.result.status = 500
    \/ r.result.tag = "raise"

\* C15, as stated: a missing vendor credential at provider construction and
\* a missing or malformed configuration file are surfaced as 500 by
\* POST /api/chat and POST /api/chat/vision.
C15_ConfigurationErrorIs500 ==
    \A t \in Threads :
        LET r == th[t]
        IN /\ (HandlerDone(r) /\ ConsultedRegistry(r) /\ ConfigUnloadable)
                  => Surfaced500(r)
           /\ (HandlerDone(r) /\ NeedsAbsentCredential(r)) => Surfaced500(r)

\* C15, amended: a missing or malformed configuration file is not caught by
\* the handler (the load error leaves it and the host answers 500), and a
\* missing vendor credential is answered 400 with the constructor's message,
\* which names the variable that is not set.
C15_ConfigFileRaisesCredentialIs400 ==
    \A t \in Threads :
        LET r == th[t]
        IN /\ (HandlerDone(r) /\ ConsultedRegistry(r) /\ ConfigUnloadable)
                  => r.result.tag = "raise"
           /\ (HandlerDone(r) /\ NeedsAbsentCredential(r)) =>
                 /\ r.result.tag = "response"
                 /\ r.result.status = 400
                 /\ r.result.body.error.exc = "ValueError"
                 /\ r.result.body.error.msg.var \notin environ
                 /\ r.vendor_calls = 0

\* POST /api/chat for the OpenAI model in a process without OPENAI_API_KEY
\* was answered 400.
C15_Witness ==
    \E t \in Threads :
        /\ HandlerDone(th[t]) /\ th[t].op = "chat"
        /\ NeedsAbsentCredential(th[t])
        /\ th[t].result.status = 400

\* The SDK call of the handler's adapter failed.
VendorCallRaised(r) == r.reply # None /\ r.reply.tag = "raise"

\* C16: whatever exception the vendor call raises, the handler answers 500
\* with the wrapped message "Generation failed: ..." (a failure that is not a
\* vendor failure and is answered 400 is thereby told apart).
C16_VendorFailureIs500 ==
    \A t \in Threads :
        (HandlerDone(th[t]) /\ VendorCallRaised(th[t])) =>
            /\ th[t].result.tag = "response"
            /\ th[t].result.status = 500
            /\ th[t].result.body = [error |-> "Generation failed", cause |-> th[t].reply]

\* C17: within one request the handler asks for the provider at most once
\* and the adapter makes at most one SDK call; when that call raises, the
\* request is over at once, with the failure as its response.
C17_NoRetries ==
    \A t \in Threads :
        LET r == th[t]
        IN r.op \in {"chat", "chat_vision"} =>
              /\ r.gp_calls <= 1
              /\ r.vendor_calls <= 1
              /\ VendorCallRaised(r) =>
                    /\ r.pc = "done"
                    /\ r.vendor_calls = 1
                    /\ r.result.tag = "response"
                    /\ r.result.status \in {400, 500}

\* A request whose vendor call failed ended with 500 after one call.
C17_Witness ==
    \E t \in Threads :
        /\ HandlerDone(th[t])
        /\ VendorCallRaised(th[t])
        /\ th[t].vendor_calls = 1 /\ th[t].gp_calls = 1
        /\ th[t].result.status = 500

\* The descriptors of the configuration file that have the id model_id.
Configured(model_id) ==
    IF ConfigUnloadable THEN {}
    ELSE {file.doc.models[i] : i \in {j \in 1..Len(file.doc.models) :
                                         file.doc.models[j].modelId = model_id}}

\* C18: POST /api/chat answers 400 to a request without prompt or modelId (or
\* without a JSON body) at once, with no registry lookup and no provider;
\* answers 404 to an unknown modelId without asking for a provider; calls the
\* vendor only after both checks, with the descriptor's modelName and its
\* temperature (0.7, here 7 tenths, when it has none); and a 200 response
\* carries the request's modelId and the descriptor's providerName as
\* configured.
C18_ChatChecksInOrder ==
    \A t \in Threads :
        LET r == th[t]
        IN r.op = "chat" =>
              /\ ~ConsultedRegistry(r) =>
                    /\ r.pc = "done"
                    /\ r.result.tag = "response" /\ r.result.status = 400
                    /\ r.model_config = None
                    /\ r.gp_calls = 0 /\ r.vendor_calls = 0
              /\ (ConsultedRegistry(r) /\ ~ConfigUnloadable /\ r.pc = "done"
                      /\ Configured(r.req.modelId) = {}) =>
                    /\ r.result.tag = "response" /\ r.result.status = 404
                    /\ r.gp_calls = 0 /\ r.vendor_calls = 0 /\ r.inst = 0
              /\ r.gp_calls > 0 =>
                    /\ ConsultedRegistry(r)
                    /\ r.model_config.d \in Configured(r.req.modelId)
              /\ r.vendor_request # None =>
                    /\ r.gp_calls = 1 /\ r.inst # 0
                    /\ r.vendor_request.model = r.model_config.d.modelName
                    /\ r.vendor_request.temperature =
                          IF "temperature" \in DOMAIN r.model_config.d
                          THEN r.model_config.d.temperature ELSE 7
              /\ (r.pc = "done" /\ r.result.tag = "response" /\ r.result.status = 200) =>
                    /\ r.vendor_calls = 1
                    /\ r.result.body.modelId = r.req.modelId
                    /\ r.result.body.providerName = r.model_config.d.providerName

\* POST /api/chat for the model whose descriptor has no temperature was
\* answered 200 after a vendor call with temperature 0.7.
C18_Witness ==
    \E t \in Threads :
        /\ HandlerDone(th[t]) /\ th[t].op = "chat"
        /\ th[t].model_config # None /\ th[t].vendor_request # None
        /\ "temperature" \notin DOMAIN th[t].model_config.d
        /\ th[t].vendor_request.temperature = 7
        /\ th[t].result.status = 200
        /\ th[t].result.body.providerName = N_AWSBedrock

(***************************************************************************)
(* Properties of the user store.                                           *)
(***************************************************************************)
UserDone(r, op) == r.op = op /\ r.pc = "done" /\ r.result.tag = "response"

\* The record that an add_user request asks for.
RequestedRecord(req) ==
    [PartitionKey |-> "user", RowKey |-> req.username.chars,
     password |-> req.password.chars, isAdmin |-> req.isAdmin.b]

\* add_user of thread t is at its request to the table service and the
\* service answers.
AddUserReachesStore(t) ==
    /\ th[t].op = "add_user" /\ th[t].pc = "store_op"
    /\ th'[t].pc = "done"
    /\ th[t].config.tag = "dict"

C19_ExistingNameRejected ==
    \A t \in Threads :
        AddUserReachesStore(t) =>
            LET u == th[t].ureq.username.chars
            IN IF u \in DOMAIN table
               THEN /\ th'[t].result = Response(409, [error |-> "already exists",
                                                       username |-> th[t].ureq.username])
                    /\ table' = table
               ELSE /\ th'[t].result.status = 201
                    /\ DOMAIN table' = DOMAIN table \cup {u}
                    /\ table'[u] = RequestedRecord(th[t].ureq)
                    /\ \A k \in DOMAIN table : table'[k] = table[k]

\* The add_user requests for username u that the table service has answered.
AnsweredAdds(u) ==
    {t \in Threads : /\ UserDone(th[t], "add_user")
                     /\ th[t].ureq.username = Str(u)
                     /\ th[t].result.status \in {201, 409}}

C19_OneOfTwoSucceeds ==
    \A u \in Usernames :
        AnsweredAdds(u) # {} =>
            \E t \in AnsweredAdds(u) :
                /\ th[t].result.status = 201
                /\ \A o \in AnsweredAdds(u) \ {t} : th[o].result.status = 409
                /\ table[u] = RequestedRecord(th[t].ureq)

\* C19: add_user for a username that is in the table is answered 409 and
\* changes no record, add_user for one that is not there stores the record
\* of the call; of the add_user requests for one username that the table
\* service has answered, overlapping or not, exactly one is answered 201 and
\* every other one 409, and the stored record is the one of the request
\* answered 201.
C19_AddUserOnce ==
    /\ [][C19_ExistingNameRejected]_vars
    /\ []C19_OneOfTwoSucceeds

\* Two requests to add alice with different passwords have both been
\* answered: the one with the second password got 201, the other 409.
C19_Witness ==
    /\ UserDone(th[1], "add_user") /\ UserDone(th[2], "add_user")
    /\ th[1].ureq = UserRequest(Str(U_alice), Str(P_one), Bool(TRUE))
    /\ th[2].ureq = UserRequest(Str(U_alice), Str(P_two), Bool(FALSE))
    /\ th[1].result.status = 409
    /\ th[2].result.status = 201
    /\ table[U_alice].password = P_two

\* The user operation op of thread t is at a request to the table service,
\* and the endpoint answers in this step.
AnsweredByStore(t, op) ==
    /\ th[t].op = op
    /\ \/ th[t].pc = "store_op" /\ th[t].config.tag = "dict"
       \/ th[t].pc = "update_write"
    /\ th'[t].pc = "done"

RecordsKeptExcept(u) ==
    /\ DOMAIN table' = DOMAIN table \ {u}
    /\ \A k \in DOMAIN table' : table'[k] = table[k]

C20_DeleteRemovesOneRecord ==
    \A t \in Threads :
        AnsweredByStore(t, "delete_user") =>
            LET u == th[t].ureq.username.chars
            IN IF u \notin DOMAIN table
               THEN /\ th'[t].result = Response(404, [error |-> "not found",
                                                       username |-> th[t].ureq.username])
                    /\ table' = table
               ELSE /\ th'[t].result.tag = "response" /\ th'[t].result.status = 200
                    /\ RecordsKeptExcept(u)

C20_AbsentUserReported ==
    \A t \in Threads :
        LET u == th[t].ureq.username.chars
        IN /\ (AnsweredByStore(t, "validate_user") /\ u \notin DOMAIN table) =>
                 /\ th'[t].result.tag = "response" /\ th'[t].result.status = 401
                 /\ table' = table
           /\ (AnsweredByStore(t, "update_user") /\ u \notin DOMAIN table) =>
                 /\ th'[t].result.tag = "response" /\ th'[t].result.status = 404
                 /\ table' = table

\* C20: delete_user for a username that is not in the table is answered 404
\* and changes no record; for one that is there it removes that record and
\* no other; and while the username is not in the table, validate_user is
\* answered 401 (invalid) and update_user 404 (not found), also an
\* update_user that read the record before it was deleted.
C20_DeleteUser ==
    /\ [][C20_DeleteRemovesOneRecord]_vars
    /\ [][C20_AbsentUserReported]_vars

\* alice was deleted while an update of alice had read her record: the
\* delete was answered 200, the update 404, and bob's record is still there.
C20_Witness ==
    /\ UserDone(th[1], "delete_user") /\ th[1].ureq.username = Str(U_alice)
    /\ th[1].result.status = 200
    /\ UserDone(th[2], "update_user") /\ th[2].ureq.username = Str(U_alice)
    /\ th[2].entity # None
    /\ th[2].result.status = 404
    /\ DOMAIN table = {U_bob}

\* The record of u after an update that gives the fields of req.
WithPresentFields(stored, req) ==
    [PartitionKey |-> stored.PartitionKey,
     RowKey |-> stored.RowKey,
     password |-> IF req.password # None THEN req.password.chars ELSE stored.password,
     isAdmin |-> IF req.isAdmin # None THEN req.isAdmin.b ELSE stored.isAdmin]

\* C21: when update_user calls are served one after the other, the call for
\* a username that is in the table is answered 200 and replaces the password
\* and the isAdmin flag that the request gives, the field it does not give,
\* the keys of the record and every other record stay as stored; the call
\* for a username that is not in the table is answered 404 and the table
\* stays as it is.
C21_UpdateChangesPresentFieldsOnly ==
    [][\A t \in Threads :
          LET u == th[t].ureq.username.chars
          IN /\ (AnsweredByStore(t, "update_user") /\ u \notin DOMAIN table) =>
                   /\ th'[t].result = Response(404, [error |-> "not found",
                                                      username |-> th[t].ureq.username])
                   /\ table' = table
             /\ (AnsweredByStore(t, "update_user") /\ u \in DOMAIN table) =>
                   /\ th'[t].result =
                          Response(200, [user |-> EntityToUser(
                                            WithPresentFields(table[u], th[t].ureq))])
                   /\ table' = [table EXCEPT
                                   ![u] = WithPresentFields(table[u], th[t].ureq)]
             /\ (th[t].op = "update_user" /\ th[t].pc = "store_op") =>
                   table' = table]_vars

\* alice was added as an administrator with the first password, and an
\* update that gave only the second password has been answered: she is
\* still an administrator.
C21_Witness ==
    \E t \in Threads :
        /\ UserDone(th[t], "update_user")
        /\ th[t].ureq = UserRequest(Str(U_alice), Str(P_two), None)
        /\ th[t].result.status = 200
        /\ table[U_alice] = [PartitionKey |-> "user", RowKey |-> U_alice,
                             password |-> P_two, isAdmin |-> TRUE]

\* validate_user of thread t is at its request to the table service and the
\* endpoint answers.
ValidateAnswered(t) == AnsweredByStore(t, "validate_user")

\* The answer for credentials that are not valid.
InvalidSignal == Response(401, [error |-> "Invalid username or password."])

C22_ValidateMatchesLastWrite ==
    \A t \in Threads :
        ValidateAnswered(t) =>
            LET u == th[t].ureq.username.chars
                p == th[t].ureq.password.chars
            IN IF u \in DOMAIN written /\ written[u].password = p
               THEN /\ th'[t].result =
                          Response(200, [user |-> [username |-> u, password |-> p,
                                                   isAdmin |-> written[u].isAdmin]])
                    /\ u \in DOMAIN table
                    /\ th'[t].result.body.user = EntityToUser(table[u])
               ELSE th'[t].result = InvalidSignal

\* C22: when the requests are served one after the other, validate_user for
\* u and p is answered 200 with the stored record of u, which holds u, p and
\* the isAdmin flag written last, exactly when u was added and not deleted
\* since and p is the password that add_user or the latest update_user
\* with a password gave; every other validate_user that reaches the table
\* is answered 401 and none raises; the users in the table are those added
\* and not deleted since.
C22_ValidateUser ==
    /\ [][C22_ValidateMatchesLastWrite]_vars
    /\ [](DOMAIN table = DOMAIN written)

\* alice was added with the first password, her password was updated to the
\* second, and validate_user with the second password has been answered
\* with her record.
C22_Witness ==
    /\ UserDone(th[1], "update_user")
    /\ th[1].ureq = UserRequest(Str(U_alice), Str(P_two), None)
    /\ th[1].result.status = 200
    /\ UserDone(th[2], "validate_user")
    /\ th[2].ureq = UserRequest(Str(U_alice), Str(P_two), None)
    /\ th[2].result = Response(200, [user |-> [username |-> U_alice, password |-> P_two,
                                                isAdmin |-> TRUE]])

\* A request to a user endpoint that lacks a field the endpoint needs.
Incomplete(op, req) ==
    CASE op = "add_user" ->
            req.username = None \/ req.password = None \/ req.isAdmin = None
      [] op = "update_user" -> req.password = None /\ req.isAdmin = None
      [] op = "validate_user" -> req.username = None \/ req.password = None
      [] OTHER -> FALSE

\* A request arrives at a user endpoint in thread t.
UserRequestArrives(t) == Free(t) /\ th'[t] # th[t] /\ th'[t].op \in UserOps

C23_IncompleteRejectedAtEndpoint ==
    \A t \in Threads :
        UserRequestArrives(t) =>
            IF Incomplete(th'[t].op, th'[t].ureq)
            THEN /\ th'[t].pc = "done"
                 /\ th'[t].result.tag = "response" /\ th'[t].result.status = 400
                 /\ UNCHANGED <<table, written, table_client, full_config_cache>>
            ELSE (/\ th'[t].op = "add_user"
                  /\ th'[t].ureq.isAdmin = Bool(FALSE)
                  /\ Truthy(th'[t].ureq.username) /\ Truthy(th'[t].ureq.password)) =>
                      th'[t].pc = "tc_check"

C23_FalseIsAdminCreates ==
    \A t \in Threads :
        (/\ AddUserReachesStore(t)
         /\ th[t].ureq.isAdmin = Bool(FALSE)
         /\ th[t].ureq.username.chars \notin DOMAIN table) =>
            /\ th'[t].result.status = 201
            /\ table'[th[t].ureq.username.chars].isAdmin = FALSE

\* C23: a request to add a user without username, password or isAdmin, a
\* request to update a user with neither password nor isAdmin, and a request
\* to validate without username or password is answered 400 in the step it
\* arrives, and neither the table, the table client nor the configuration
\* cache is touched; a request to add a user with isAdmin false and the
\* other fields given goes on to the user store and, when the user is not
\* there, is answered 201 and stores the user with isAdmin false.
C23_EndpointValidation ==
    /\ [][C23_IncompleteRejectedAtEndpoint]_vars
    /\ [][C23_FalseIsAdminCreates]_vars

\* An update with neither field was rejected in one thread, and bob was
\* added with isAdmin false in the other.
C23_Witness ==
    \E t, o \in Threads :
        /\ UserDone(th[t], "update_user")
        /\ th[t].ureq = UserRequest(Str(U_alice), None, None)
        /\ th[t].result.status = 400
        /\ UserDone(th[o], "add_user")
        /\ th[o].ureq = UserRequest(Str(U_bob), Str(P_two), Bool(FALSE))
        /\ th[o].result.status = 201
        /\ table[U_bob].isAdmin = FALSE

\* The password and the isAdmin flag of a record.
Fields(record) == [password |-> record.password, isAdmin |-> record.isAdmin]

\* The fields w with those that req gives put in their place.
Over(w, req) ==
    [password |-> IF req.password # None THEN req.password.chars ELSE w.password,
     isAdmin |-> IF req.isAdmin # None THEN req.isAdmin.b ELSE w.isAdmin]

\* C24: when two update_user requests for one user have both been answered
\* 200, overlapping or not, the stored record is what the two updates give
\* when applied one after the other in one of the two orders: written holds
\* the result in the order of the answers, and the update answered first,
\* applied once more, gives the result in the other order.  So an update
\* of the password only and an update of isAdmin only are both in the
\* record.
C24_OverlappingUpdatesSerialise ==
    \A t1, t2 \in Threads :
        (/\ t1 # t2
         /\ UserDone(th[t1], "update_user") /\ th[t1].result.status = 200
         /\ UserDone(th[t2], "update_user") /\ th[t2].result.status = 200
         /\ th[t1].ureq.username = th[t2].ureq.username) =>
            LET u == th[t1].ureq.username.chars
            IN /\ u \in DOMAIN table
               /\ Fields(table[u]) \in {Over(written[u], th[t1].ureq),
                                        Over(written[u], th[t2].ureq)}

(***************************************************************************)
(* Properties of the registry after a failed load.                         *)
(***************************************************************************)
\* The registry operation of r has ended with an error.
LoadFailed(r) == r.pc = "done" /\ r.result.tag = "raise"

\* No thread between t1 and t2 called reload_config.
NoReloadBetween(t1, t2) ==
    \A u \in Threads : (t1 < u /\ u < t2) => th[u].op # "reload_config"

\* The registry operation of thread t ends with an error in this step.
LoadFails(t) == th[t].pc # "done" /\ LoadFailed(th'[t])

\* C25 as stated: after a registry operation has failed, every operation
\* made before reload_config is called fails as well, and a failing
\* operation leaves _models_cache and _full_config_cache unset.
C25_FailsUntilReloaded ==
    /\ [](\A t1, t2 \in Threads :
            (/\ t1 < t2
             /\ LoadFailed(th[t1])
             /\ th[t2].pc = "done" /\ th[t2].op # "reload_config"
             /\ NoReloadBetween(t1, t2)) => LoadFailed(th[t2]))
    /\ [][\A t \in Threads :
              LoadFails(t) => models_cache' = None /\ full_config_cache' = None]_vars

\* While the file is as it was when an operation failed, every later
\* operation fails, reload_config too.
C25_FailsWhileUncorrected ==
    \A t1, t2 \in Threads :
        (/\ t1 < t2
         /\ edits = 0
         /\ LoadFailed(th[t1])
         /\ th[t2].pc = "done") => LoadFailed(th[t2])

\* An array in _full_config_cache stays there until reload_config clears
\* the cache, and an operation that finds it there does not read the file
\* and fails on it, whatever the file holds by then.
C25_CachedDocumentKeepsFailing ==
    /\ (full_config_cache.tag = "array" /\ full_config_cache' # full_config_cache) =>
           \E t \in Threads : th[t].op = "reload_config" /\ th[t].pc = "rl_clear_full"
    /\ \A t \in Threads :
          /\ (/\ th[t].pc = "lfc_check" /\ th'[t] # th[t]
              /\ full_config_cache.tag = "array") =>
                 th'[t].pc = "lm_store" /\ th'[t].config = full_config_cache
          /\ (/\ th[t].pc = "lm_store" /\ th'[t] # th[t]
              /\ th[t].config.tag = "array") =>
                 LoadFailed(th'[t]) /\ th'[t].result.exc = "AttributeError"

\* What a failing operation leaves in the caches.
C25_CachesAfterFailure ==
    \A t \in Threads :
        LoadFails(t) =>
            /\ models_cache' = None
            /\ IF th[t].pc = "lfc_read"
               THEN /\ th'[t].result.exc \in {"FileNotFoundError", "JSONDecodeError"}
                    /\ full_config_cache' = None
               ELSE /\ th[t].pc = "lm_store"
                    /\ th'[t].result.exc = "AttributeError"
                    /\ full_config_cache' = (IF th[t].fresh # None
                                             THEN th[t].fresh.value
                                             ELSE full_config_cache)
                    /\ full_config_cache'.tag # "dict"

\* What the caches hold when get_all_models or reload_config returns.
C25_ReturnsFromBothCaches ==
    \A t \in Threads :
        (/\ th[t].pc # "done" /\ th'[t].pc = "done"
         /\ th'[t].result.tag = "return"
         /\ th[t].op \in {"get_all_models", "reload_config"}) =>
            /\ full_config_cache'.tag = "dict"
            /\ models_cache' = List(IF full_config_cache'.has_models
                                     THEN full_config_cache'.models ELSE <<>>)
            /\ th'[t].result.value = models_cache'

\* C25 (amended): for registry operations made one after the other, an
\* operation that follows a failed one fails as long as the file was not
\* rewritten; an operation that fails on a missing or unparsable file
\* leaves both caches unset, so that the first operation after the file is
\* corrected succeeds without reload_config; an operation that fails on a
\* document that is no JSON object leaves the document it read or found
\* cached in _full_config_cache (None for null) and _models_cache unset, and with an
\* array cached the operations keep failing until reload_config is called,
\* whatever the file holds; an operation that returns the list returns the
\* "models" of the object in _full_config_cache.
C25_FailsUntilCorrected ==
    /\ []C25_FailsWhileUncorrected
    /\ [][C25_CachedDocumentKeepsFailing]_vars
    /\ [][C25_CachesAfterFailure]_vars
    /\ [][C25_ReturnsFromBothCaches]_vars

\* The first operation failed on an array, the file was corrected, and the
\* second operation, which is not reload_config, failed as well: the array
\* is still cached.
C25_Witness ==
    /\ LoadFailed(th[1]) /\ th[1].result.exc = "AttributeError"
    /\ file = FileJson(CfgA)
    /\ th[2].op = "get_all_models" /\ LoadFailed(th[2])
    /\ th[2].result.exc = "AttributeError"
    /\ full_config_cache = JsonArray /\ models_cache = None

(***************************************************************************)
(* Properties of a failed construction.                                    *)
(***************************************************************************)
\* The variables the constructor of class requires are set.
RequiredEnvSet(class) ==
    \A i \in 1..Len(RequiredEnv(class)) : RequiredEnv(class)[i] \in environ

\* The constructor called by thread t raises in this step.
ConstructionFails(t) ==
    /\ th[t].op = "get_provider" /\ th[t].pc = "gp_construct"
    /\ th'[t] # th[t]
    /\ ~RequiredEnvSet(ProviderClass(th[t].key))

C26_FailureEndsTheCall ==
    \A t \in Threads :
        ConstructionFails(t) =>
            /\ th'[t].pc = "done"
            /\ th'[t].result.tag = "raise" /\ th'[t].result.exc = "ValueError"
            /\ heap' = heap
            /\ provider_cache' = provider_cache
            /\ th[t].key \notin DOMAIN provider_cache'

C26_InstanceOnlyByCall ==
    \A k \in ProviderKeys :
        (k \notin DOMAIN provider_cache /\ k \in DOMAIN provider_cache') =>
            \E t \in Threads :
                /\ th[t].op = "get_provider" /\ th[t].pc = "gp_store" /\ th[t].key = k
                /\ th'[t].pc = "done" /\ th'[t].result.tag = "return"
                /\ heap[provider_cache'[k]] = ProviderClass(k)
                /\ RequiredEnvSet(ProviderClass(k))

\* C26: a get_provider call whose constructor raises for a variable that is
\* not set ends with that ValueError in the same step: it constructs no
\* object, does not go back to try again and leaves _provider_cache as it
\* was, without an entry for the key; an entry for a key appears only in
\* the step in which a get_provider call for the key stores the instance it
\* constructed, and then, as for every cached key, the variables the
\* constructor requires are set; a thread that has ended takes no step
\* until it is called again.
C26_FailedConstruction ==
    /\ [][C26_FailureEndsTheCall]_vars
    /\ [][C26_InstanceOnlyByCall]_vars
    /\ [](\A k \in DOMAIN provider_cache : RequiredEnvSet(heap[provider_cache[k]]))
    /\ [][\A t \in Threads :
             (th[t].pc = "done" /\ th'[t] # th[t]) => th'[t].pc = "gp_check"]_vars

\* A call for OpenAI failed while OPENAI_API_KEY was not set; after the
\* variable was set, another call constructed and cached the instance.
C26_Witness ==
    \E t, o \in Threads :
        /\ th[t].op = "get_provider" /\ Failed(t) /\ th[t].key = K_openai
        /\ th[t].result = EnvNotSet("OPENAI_API_KEY")
        /\ th[o].op = "get_provider" /\ Succeeded(o) /\ th[o].key = K_openai
        /\ K_openai \in DOMAIN provider_cache
        /\ provider_cache[K_openai] = th[o].result.value.inst
        /\ environ = EnvVars

(***************************************************************************)
(* Properties of lazy construction.                                        *)
(***************************************************************************)
\* The adapter class that the providerName of descriptor d is mapped to.
VendorOf(d) ==
    {ProviderMapClasses[i] : i \in {j \in 1..Len(ProviderMapKeys) :
                                       ProviderMapKeys[j] = StrLower(StrStrip(d.providerName))}}

\* The handler answered 400 with a constructor's error about a variable
\* that is not set.
CredentialError(r) ==
    /\ r.result.tag = "response" /\ r.result.status = 400
    /\ r.result.body.error.exc = "ValueError"
    /\ "var" \in DOMAIN r.result.body.error.msg

C27_ConstructedOnResolution ==
    heap' # heap =>
        \E t \in Threads :
            /\ th[t].op \in Handlers /\ th[t].pc = "gp_construct"
            /\ th[t].gp_calls = 1
            /\ ConsultedRegistry(th[t])
            /\ th[t].model_config # None
            /\ th[t].model_config.d.modelId = th[t].req.modelId
            /\ \E c \in VendorOf(th[t].model_config.d) : heap' = Append(heap, c)

C27_FailuresPerVendor ==
    \A t \in Threads :
        LET r == th[t]
        IN /\ (HandlerDone(r) /\ r.gp_calls = 0) =>
                 /\ r.inst = 0
                 /\ \/ r.result.tag = "raise"
                    \/ r.result.status \in {400, 404}
           /\ (HandlerDone(r) /\ r.gp_calls > 0) =>
                 \A c \in VendorOf(r.model_config.d) :
                     IF RequiredEnvSet(c)
                     THEN /\ r.inst # 0 /\ heap[r.inst] = c
                          /\ r.result.status = 400 => ~CredentialError(r)
                     ELSE /\ r.inst = 0
                          /\ CredentialError(r)
                          /\ r.result.body.error.msg.var \notin environ
                          /\ \E i \in 1..Len(RequiredEnv(c)) :
                                RequiredEnv(c)[i] = r.result.body.error.msg.var

\* C27: no adapter exists when the process has started; an adapter is
\* constructed only in the step in which POST /api/chat or
\* POST /api/chat/vision, having found the descriptor of the request's
\* modelId, asks for the provider of the descriptor's providerName, and it
\* is the adapter of that name; a request answered before that step has no
\* adapter; and a request that resolved a model ends with a constructor's
\* error about a variable that is not set exactly when a variable that the
\* constructor of its own vendor requires is not set, otherwise it has its
\* vendor's adapter.
C27_LazyPerVendor ==
    /\ []((\A t \in Threads : th[t].op = "idle") =>
              heap = <<>> /\ provider_cache = <<>>)
    /\ [][C27_ConstructedOnResolution]_vars
    /\ []C27_FailuresPerVendor

\* In a process without OPENAI_API_KEY, a chat request for the OpenAI model
\* was answered 400 and a chat request for the Anthropic model 200, by the
\* only adapter that was constructed.
C27_Witness ==
    \E t, o \in Threads :
        /\ "OPENAI_API_KEY" \notin environ
        /\ HandlerDone(th[t]) /\ th[t].req.modelId = "gpt-4o"
        /\ th[t].gp_calls = 1
        /\ CredentialError(th[t])
        /\ HandlerDone(th[o]) /\ th[o].req.modelId = "claude"
        /\ th[o].result.status = 200
        /\ heap = <<"AnthropicProvider">>

====
